---- MODULE Spec2Model ----
(***************************************************************************)
(* A model of simon's durable job queue (simon/storage/jobs.py), of the    *)
(* worker loop that drains it (simon/context/worker.py) and of the session *)
(* recorder (simon/context/recorder.py, simon/ingestion/claude_code.py).   *)
(*                                                                         *)
(* The database is PostgreSQL at READ COMMITTED: focus_jobs holds the      *)
(* committed rows, pending[p] the row versions written by the open         *)
(* transaction of process p.  A row in DOMAIN pending[p] is locked by p.   *)
(*                                                                         *)
(* The handlers of worker.py run in sessions of their own: the rows of a   *)
(* session_process handler are held in handler_tx[w] until its scope ends, *)
(* the other handlers write in one step at the end of their scope.         *)
(***************************************************************************)
EXTENDS Integers, Sequences, FiniteSets, TLC

VARIABLES
    now,          \* the clock, in seconds
    focus_jobs,   \* committed rows of table focus_jobs: id -> row
    pending,      \* pending[p]: uncommitted row versions of p's transaction
    pc,           \* pc[p]: where process p is
    job,          \* job[p]: the id of the job that claim_job returned to p
    lease,        \* lease[p]: the locked_until of the job object that p holds
    path_exists,  \* whether the transcript file of the session exists
    transcript,   \* the records of the session's transcript file, in order
    agent_sessions, \* committed rows of table agent_sessions: session_id -> row
    agent_turns,  \* committed rows of table agent_turns, in the order of insertion
    result,       \* what the last record_session returned
    handler_tx,   \* handler_tx[w]: uncommitted writes of the session that the
                  \* session_process handler of worker w has open
    _running,     \* _running[w]: the flag of worker process w that its loop tests
    oneshot,      \* oneshot[w]: the locals of a call of process_pending_jobs by w
    hook_run,     \* the run of a hook command: its stdin, environment and exit
    classifier,   \* the PromptClassifier: the entities that load_entities read
    classified,   \* the last call of classify: its arguments and what it returned
    state_dir,    \* the names active_project.json and active_project.tmp: the
                  \* inode each one stands for, None when the name does not exist
    inodes,       \* the files of the state directory, by inode number: the state
                  \* whose text the file holds, how much of the text is there,
                  \* and the process that wrote it last (None: an earlier call)
    writer,       \* writer[w]: where the call of process w that writes the state
                  \* file is, the state it writes and the file it has opened
    state_read,   \* what the last call of get_active_project by a reader returned
    context_db,   \* the tables and the installed skills that the retriever reads
    retrieved,    \* what the last call of retrieve returned
    formatted,    \* the last call of format_context_blocks and the text it returned
    skill_settings,   \* the section skills of the settings
    generated_skills, \* committed rows of table generated_skills, in the order
                      \* of insertion
    skills_dir,   \* the names of the directories under ~/.claude/skills
    skill_run,    \* skill_run[w]: the locals of the skill_extract handler of
                  \* worker w, and how its last run ended
    content_summary,      \* the columns files_touched, commands_run,
                          \* errors_encountered and tool_call_count of table
                          \* agent_turn_content, by turn id; a turn that is not
                          \* in the domain has them NULL, as record_session
                          \* inserts the row
    agent_turn_entities,  \* committed rows of table agent_turn_entities, in
                          \* the order of insertion
    agent_turn_artifacts, \* committed rows of table agent_turn_artifacts, in
                          \* the order of insertion
    extract_tx    \* extract_tx[w]: the session that a turn-level handler of
                  \* worker w has open, and the writes it will commit

queueVars == <<now, focus_jobs, pending, pc, job, lease>>
loopVars == <<_running, oneshot>>
recorderVars == <<path_exists, transcript, agent_sessions, agent_turns, result, handler_tx>>
hookVars == <<hook_run>>
classifierVars == <<classifier, classified, state_dir, inodes, writer, state_read>>
retrieverVars == <<context_db, retrieved>>
formatterVars == <<formatted>>
skillVars == <<skill_settings, generated_skills, skills_dir, skill_run>>
extractVars == <<content_summary, agent_turn_entities, agent_turn_artifacts, extract_tx>>
contextVars == <<hookVars, classifierVars, retrieverVars, formatterVars, skillVars, extractVars>>
vars == <<now, focus_jobs, pending, pc, job, lease,
          path_exists, transcript, agent_sessions, agent_turns, result, handler_tx,
          _running, oneshot, hook_run, classifier, classified, state_dir, inodes,
          writer, state_read,
          context_db, retrieved, formatted,
          skill_settings, generated_skills, skills_dir, skill_run,
          content_summary, agent_turn_entities, agent_turn_artifacts, extract_tx>>

----------------------------------------------------------------------------
\* Bounds of the model

MaxJobs == 2
MaxWorkerJobs == 1
SeedAttempts == 9
MaxLines == 3
MaxPipelineLines == 2
MaxHandlerLines == 1
MaxPendingJobs == 2

\* Program constants

LeaseSeconds == 300
BackoffBase == 30
BackoffCap == 3600
DefaultPriority == 10
DefaultMaxAttempts == 10

Procs == {1, 2}
Hooks == {3, 4}
AllProcs == Procs \cup Hooks
None == 0
NULL == -1
NoKey == << >>

JOB_KINDS ==
    {"session_process", "turn_summary", "entity_extract",
     "artifact_extract", "session_summary", "skill_extract"}

\* The calls of enqueue_job that the model makes:
\* (kind, payload, dedupe_key, priority, max_attempts); a dedupe key such as
\* f"turn_summary:{turn.id}" is the tuple of its parts
EnqueueInputs ==
    { <<"session_process", [session_id |-> "s"], <<"a">>, 5, DefaultMaxAttempts>>,
      <<"turn_summary", [turn_id |-> 1], <<"a">>, DefaultPriority, 1>>,
      <<"turn_summary", [turn_id |-> 1], NoKey, DefaultPriority, 1>> }

\* The kinds arguments of claim_job that the model makes ({} is None or an empty list)
ClaimInputs == { {}, {"turn_summary"}, JOB_KINDS }

----------------------------------------------------------------------------
\* The database

NoWrites == << >>

\* The row versions process p sees: the committed rows overlaid with its own writes
View(p) == pending[p] @@ focus_jobs

\* variant: no row is ever seen as locked
LockedByNobody(p, id) == FALSE

\* FOR UPDATE SKIP LOCKED / row-level write lock: another open transaction wrote the row
LockedByOther(p, id) == \E q \in AllProcs \ {p} : id \in DOMAIN pending[q]

AllIds ==
    DOMAIN focus_jobs \cup UNION { DOMAIN pending[q] : q \in AllProcs }
                      \cup UNION { DOMAIN handler_tx[w].jobs : w \in Procs }

\* uuid.uuid4(): an id no row has
NewId == IF AllIds = {} THEN 1 ELSE 1 + CHOOSE m \in AllIds : \A o \in AllIds : o <= m

\* get_session(): commit at the end of the scope
CommitWrites(p) ==
    /\ focus_jobs' = View(p)
    /\ pending' = [pending EXCEPT ![p] = NoWrites]

\* get_session(): rollback, or the connection of a dead process is closed
RollbackWrites(p) ==
    /\ pending' = [pending EXCEPT ![p] = NoWrites]
    /\ UNCHANGED focus_jobs

----------------------------------------------------------------------------
\* jobs.py.  Each operation is given by the row versions it writes in the
\* transaction of the calling process p and by the value it returns.

NewJob(kind, payload, dedupe_key, priority, max_attempts) ==
    [ kind |-> kind, payload |-> payload, dedupe_key |-> dedupe_key, status |-> "queued",
      priority |-> priority, attempts |-> 0, max_attempts |-> max_attempts,
      locked_until |-> NULL, error_message |-> "", created_at |-> now ]

\* variant: a key conflicts with the rows that are not finished only
KeyConflictUnfinished(p, dedupe_key) ==
    \E id \in DOMAIN View(p) :
        /\ View(p)[id].dedupe_key = dedupe_key
        /\ View(p)[id].status \notin {"done", "failed"}

\* ON CONFLICT (dedupe_key) DO NOTHING: a row that p sees holds the key
KeyConflict(p, dedupe_key) ==
    \E id \in DOMAIN View(p) : View(p)[id].dedupe_key = dedupe_key

\* variant: an insert that never waits
KeyInFlightNever(p, dedupe_key) == FALSE

\* the unique index makes the insert wait for an uncommitted insert of the same key
KeyInFlight(p, dedupe_key) ==
    \E q \in AllProcs \ {p} : \E id \in DOMAIN pending[q] :
        /\ id \notin DOMAIN focus_jobs
        /\ pending[q][id].dedupe_key = dedupe_key

\* the insert does not wait
enqueue_ready(p, dedupe_key) == dedupe_key # NoKey => ~KeyInFlight(p, dedupe_key)

enqueue_job(p, kind, payload, dedupe_key, priority, max_attempts) ==
    IF dedupe_key # NoKey /\ KeyConflict(p, dedupe_key)
    THEN [ writes |-> NoWrites, ret |-> None ]
    ELSE [ writes |-> NewId :> NewJob(kind, payload, dedupe_key, priority, max_attempts),
           ret |-> NewId ]

\* variant: a selection that ignores locked_until
ClaimableAnyTime(p, kinds) ==
    { id \in DOMAIN View(p) :
        /\ View(p)[id].status \in {"queued", "retry"}
        /\ (kinds # {} => View(p)[id].kind \in kinds)
        /\ ~LockedByOther(p, id) }

\* variant: only the rows in status queued can be claimed
ClaimableQueuedOnly(p, kinds) ==
    { id \in DOMAIN View(p) :
        /\ View(p)[id].status = "queued"
        /\ (View(p)[id].locked_until = NULL \/ View(p)[id].locked_until < now)
        /\ (kinds # {} => View(p)[id].kind \in kinds)
        /\ ~LockedByOther(p, id) }

\* WHERE status IN ('queued','retry') AND (locked_until IS NULL OR locked_until < now())
\*   AND kind = ANY(:kinds)   -- the kind filter only "if kinds:"
\*   FOR UPDATE SKIP LOCKED
Claimable(p, kinds) ==
    { id \in DOMAIN View(p) :
        /\ View(p)[id].status \in {"queued", "retry"}
        /\ (View(p)[id].locked_until = NULL \/ View(p)[id].locked_until < now)
        /\ (kinds # {} => View(p)[id].kind \in kinds)
        /\ ~LockedByOther(p, id) }

\* variant: ORDER BY created_at ASC
OrderedByCreatedAt(a, b) == a.created_at < b.created_at

\* variant: ORDER BY priority DESC, created_at ASC
OrderedByPriorityDesc(a, b) ==
    \/ a.priority > b.priority
    \/ a.priority = b.priority /\ a.created_at < b.created_at

\* ORDER BY priority ASC, created_at ASC
OrderedBefore(a, b) ==
    \/ a.priority < b.priority
    \/ a.priority = b.priority /\ a.created_at < b.created_at

\* LIMIT 1: a first row of the ordering
FirstClaimable(p, kinds) ==
    { id \in Claimable(p, kinds) :
        \A o \in Claimable(p, kinds) : ~OrderedBefore(View(p)[o], View(p)[id]) }

ClaimUpdate(row) ==
    [row EXCEPT !.status = "processing",
                !.locked_until = now + LeaseSeconds,
                !.attempts = @ + 1]

\* the outcomes of claim_job: rows that tie in the ordering may come in any order
claim_job(p, kinds) ==
    IF Claimable(p, kinds) = {}
    THEN { [ writes |-> NoWrites, ret |-> None, locked_until |-> NULL ] }
    ELSE { [ writes |-> id :> ClaimUpdate(View(p)[id]), ret |-> id,
             locked_until |-> ClaimUpdate(View(p)[id]).locked_until ] :
             id \in FirstClaimable(p, kinds) }

\* an UPDATE waits for the transaction that holds the row
update_ready(p, ids) == \A id \in ids : ~LockedByOther(p, id)

complete_job(p, id) ==
    IF id \in DOMAIN View(p)
    THEN id :> [View(p)[id] EXCEPT !.status = "done"]
    ELSE NoWrites

\* variant: a backoff without the cap
BackoffUncapped(attempts) == (2 ^ attempts) * BackoffBase

\* min((2 ** job.attempts) * 30, 3600)
BackoffSeconds(attempts) ==
    IF (2 ^ attempts) * BackoffBase < BackoffCap
    THEN (2 ^ attempts) * BackoffBase
    ELSE BackoffCap

FailUpdate(row, error_message) ==
    IF row.attempts < row.max_attempts
    THEN [row EXCEPT !.status = "retry",
                     !.error_message = error_message,
                     !.locked_until = now + BackoffSeconds(row.attempts)]
    ELSE [row EXCEPT !.status = "failed",
                     !.error_message = error_message]

\* variant: a fail_job that writes nothing
FailWritesNothing(p, id, error_message) == NoWrites

fail_job(p, id, error_message) ==
    IF id \in DOMAIN View(p)
    THEN id :> FailUpdate(View(p)[id], error_message)
    ELSE NoWrites

\* WHERE status = 'processing' AND locked_until < now
Stale(p) ==
    { id \in DOMAIN View(p) :
        /\ View(p)[id].status = "processing"
        /\ View(p)[id].locked_until # NULL
        /\ View(p)[id].locked_until < now }

\* variant: the lease deadline is left in place
ExpireKeepsDeadline(row) == [row EXCEPT !.status = "retry"]

ExpireUpdate(row) == [row EXCEPT !.status = "retry", !.locked_until = NULL]

expire_stale_leases(p) ==
    [ writes |-> [id \in Stale(p) |-> ExpireUpdate(View(p)[id])],
      ret |-> Cardinality(Stale(p)) ]

\* no call of process_pending_jobs has been made
NoRun == [ max_jobs |-> 0, iterations |-> 0, processed |-> 0, returned |-> NULL ]

\* a handler session that has written nothing
NoTx == [ open |-> FALSE, new_turns |-> << >>, turn_count |-> 0, jobs |-> << >> ]

\* no transcript has been written and nothing has been recorded
RecorderIdle ==
    /\ handler_tx = [w \in Procs |-> NoTx]
    /\ path_exists = TRUE
    /\ transcript = << >>
    /\ agent_sessions = << >>
    /\ agent_turns = << >>
    /\ result = [turns_recorded |-> 0, turns_skipped |-> 0, error |-> ""]

\* no hook command has run
HookIdle == hook_run = [ state |-> "idle", cmd |-> "" ]

\* no process writes the state file and none has read it
StateFileIdle ==
    /\ writer = [ w \in {1, 2} |-> [ pc |-> "idle" ] ]
    /\ state_read = << >>

\* no entity is loaded, no prompt has been classified, no state file exists
ClassifierIdle ==
    /\ classifier = [ _projects |-> << >>, _people |-> << >> ]
    /\ classified = << >>
    /\ state_dir = [ json |-> None, tmp |-> None ]
    /\ inodes = << >>
    /\ StateFileIdle

\* the tables are empty and nothing has been retrieved
RetrieverIdle ==
    /\ context_db = [ projects |-> << >>, turns |-> << >>, tasks |-> << >>,
                      commitments |-> << >>, people |-> << >>, sprints |-> << >>,
                      skills |-> << >> ]
    /\ retrieved = << >>

\* nothing has been formatted
FormatterIdle == formatted = << >>

\* SkillSettings as config.py declares it: min_quality_score in units of 1/240
DefaultSkillSettings ==
    [ auto_generate |-> TRUE, min_quality_score |-> 144,
      max_auto_skills_per_day |-> 3 ]

\* a worker that runs no skill_extract handler
NoSkillRun == [ stage |-> "idle", session_id |-> "" ]

\* no skill has been generated and no skill_extract handler runs
SkillsIdle ==
    /\ skill_settings = DefaultSkillSettings
    /\ generated_skills = << >>
    /\ skills_dir = {}
    /\ skill_run = [ w \in {1, 2} |-> NoSkillRun ]

\* no turn-level handler has a session open
NoExtractTx == [ open |-> FALSE ]

ExtractIdle ==
    /\ content_summary = << >>
    /\ agent_turn_entities = << >>
    /\ agent_turn_artifacts = << >>
    /\ extract_tx = [ w \in {1, 2} |-> NoExtractTx ]

ContextIdle ==
    /\ HookIdle
    /\ ClassifierIdle
    /\ RetrieverIdle
    /\ FormatterIdle
    /\ SkillsIdle
    /\ ExtractIdle

\* the queue is empty and no process holds a job
QueueIdle ==
    /\ now = 0
    /\ focus_jobs = NoWrites
    /\ pending = [p \in AllProcs |-> NoWrites]
    /\ pc = [p \in AllProcs |-> "idle"]
    /\ job = [p \in AllProcs |-> None]
    /\ lease = [p \in AllProcs |-> NULL]

\* no worker has been told to stop and no one-shot call is under way
LoopIdle ==
    /\ _running = [w \in Procs |-> TRUE]
    /\ oneshot = [w \in Procs |-> NoRun]

\* The instants at which the clock is read: the first backoff deadline of a call
\* made at time 0, the second after it, and the second after the first lease deadline
Instants ==
    { BackoffSeconds(1), BackoffSeconds(1) + 1, LeaseSeconds + 1 }

Tick ==
    /\ \E t \in Instants : t > now /\ now' = t
    /\ UNCHANGED <<focus_jobs, pending, pc, job, lease>>
    /\ UNCHANGED recorderVars
    /\ UNCHANGED loopVars
    /\ UNCHANGED contextVars

\* the table of the model holds at most cap rows
HasRoom(cap) == NewId <= cap

----------------------------------------------------------------------------
\* Callers of the queue that make one call at a time, each in a transaction
\* of its own that is committed when the call returns

Init ==
    /\ now = 0
    /\ focus_jobs = NoWrites
    /\ pending = [p \in AllProcs |-> NoWrites]
    /\ pc = [p \in AllProcs |-> "idle"]
    /\ job = [p \in AllProcs |-> None]
    /\ lease = [p \in AllProcs |-> NULL]
    /\ RecorderIdle
    /\ _running = [w \in Procs |-> TRUE]
    /\ oneshot = [w \in Procs |-> NoRun]
    /\ ContextIdle

Enqueue(p, in) ==
    /\ enqueue_ready(p, in[3])
    /\ enqueue_job(p, in[1], in[2], in[3], in[4], in[5]).ret # None => HasRoom(MaxJobs)
    /\ focus_jobs' = enqueue_job(p, in[1], in[2], in[3], in[4], in[5]).writes @@ focus_jobs
    /\ UNCHANGED <<now, pending, pc, job, lease>>
    /\ UNCHANGED recorderVars
    /\ UNCHANGED loopVars
    /\ UNCHANGED contextVars

Claim(p, kinds) ==
    /\ job[p] = None
    /\ \E r \in claim_job(p, kinds) :
        /\ focus_jobs' = r.writes @@ focus_jobs
        /\ job' = [job EXCEPT ![p] = r.ret]
        /\ lease' = [lease EXCEPT ![p] = r.locked_until]
    /\ UNCHANGED <<now, pending, pc>>
    /\ UNCHANGED recorderVars
    /\ UNCHANGED loopVars
    /\ UNCHANGED contextVars

Complete(p) ==
    /\ job[p] # None
    /\ update_ready(p, {job[p]})
    /\ focus_jobs' = complete_job(p, job[p]) @@ focus_jobs
    /\ job' = [job EXCEPT ![p] = None]
    /\ lease' = [lease EXCEPT ![p] = NULL]
    /\ UNCHANGED <<now, pending, pc>>
    /\ UNCHANGED recorderVars
    /\ UNCHANGED loopVars
    /\ UNCHANGED contextVars

Fail(p) ==
    /\ job[p] # None
    /\ update_ready(p, {job[p]})
    /\ focus_jobs' = fail_job(p, job[p], "error") @@ focus_jobs
    /\ job' = [job EXCEPT ![p] = None]
    /\ lease' = [lease EXCEPT ![p] = NULL]
    /\ UNCHANGED <<now, pending, pc>>
    /\ UNCHANGED recorderVars
    /\ UNCHANGED loopVars
    /\ UNCHANGED contextVars

Expire(p) ==
    /\ update_ready(p, Stale(p))
    /\ focus_jobs' = expire_stale_leases(p).writes @@ focus_jobs
    /\ UNCHANGED <<now, pending, pc, job, lease>>
    /\ UNCHANGED recorderVars
    /\ UNCHANGED loopVars
    /\ UNCHANGED contextVars

Next ==
    \/ \E p \in Procs : \E in \in EnqueueInputs : Enqueue(p, in)
    \/ \E p \in Procs : \E kinds \in ClaimInputs : Claim(p, kinds)
    \/ \E p \in Procs : Complete(p)
    \/ \E p \in Procs : Fail(p)
    \/ \E p \in Procs : Expire(p)
    \/ Tick

Spec == Init /\ [][Next]_vars

----------------------------------------------------------------------------
\* Concurrent callers of enqueue_job (recorder.py, enqueue_session_recording):
\* the insert and the commit that ends the scope of get_session() are two steps

EnqueueInsert(h, in) ==
    /\ pc[h] = "idle"
    /\ enqueue_ready(h, in[3])
    /\ enqueue_job(h, in[1], in[2], in[3], in[4], in[5]).ret # None => HasRoom(MaxJobs)
    /\ pending' = [pending EXCEPT ![h] = enqueue_job(h, in[1], in[2], in[3], in[4], in[5]).writes]
    /\ job' = [job EXCEPT ![h] = enqueue_job(h, in[1], in[2], in[3], in[4], in[5]).ret]
    /\ pc' = [pc EXCEPT ![h] = "commit"]
    /\ UNCHANGED <<now, focus_jobs, lease>>
    /\ UNCHANGED recorderVars
    /\ UNCHANGED loopVars
    /\ UNCHANGED contextVars

EnqueueCommit(h) ==
    /\ pc[h] = "commit"
    /\ CommitWrites(h)
    /\ pc' = [pc EXCEPT ![h] = "idle"]
    /\ UNCHANGED <<now, job, lease>>
    /\ UNCHANGED recorderVars
    /\ UNCHANGED loopVars
    /\ UNCHANGED contextVars

NextEnqueue ==
    \/ \E h \in Hooks : \E in \in EnqueueInputs : EnqueueInsert(h, in)
    \/ \E h \in Hooks : EnqueueCommit(h)

SpecEnqueue == Init /\ [][NextEnqueue]_vars

----------------------------------------------------------------------------
\* The deployed processes: the hooks, which enqueue in a transaction of their
\* own, and the workers (worker.py, run_worker), whose claim, complete and fail
\* of one iteration share one transaction that stays open while the handler runs

InitWorker ==
    /\ now = 0
    /\ focus_jobs = NoWrites
    /\ pending = [p \in AllProcs |-> NoWrites]
    /\ pc = [p \in AllProcs |-> IF p \in Hooks THEN "idle" ELSE "expire"]
    /\ job = [p \in AllProcs |-> None]
    /\ lease = [p \in AllProcs |-> NULL]
    /\ RecorderIdle
    /\ _running = [w \in Procs |-> TRUE]
    /\ oneshot = [w \in Procs |-> NoRun]
    /\ ContextIdle

\* enqueue_session_recording: async with get_session(): enqueue_job(...), and the
\* commit that ends the scope
HookEnqueue(h, in) ==
    /\ enqueue_ready(h, in[3])
    /\ enqueue_job(h, in[1], in[2], in[3], in[4], in[5]).ret # None => HasRoom(MaxWorkerJobs)
    /\ focus_jobs' = enqueue_job(h, in[1], in[2], in[3], in[4], in[5]).writes @@ focus_jobs
    /\ UNCHANGED <<now, pending, pc, job, lease>>
    /\ UNCHANGED recorderVars
    /\ UNCHANGED loopVars
    /\ UNCHANGED contextVars

\* run_worker: while _running: async with get_session(): expire_stale_leases(session)
WorkerExpire(w) ==
    /\ pc[w] = "expire"
    /\ _running[w]
    /\ update_ready(w, Stale(w))
    /\ focus_jobs' = expire_stale_leases(w).writes @@ focus_jobs
    /\ pc' = [pc EXCEPT ![w] = "claim"]
    /\ UNCHANGED <<now, pending, job, lease>>
    /\ UNCHANGED recorderVars
    /\ UNCHANGED loopVars
    /\ UNCHANGED contextVars

\* variant: the claim is committed in a transaction of its own
WorkerClaimCommits(w) ==
    /\ pc[w] = "claim"
    /\ \E r \in claim_job(w, JOB_KINDS) :
        /\ focus_jobs' = r.writes @@ focus_jobs
        /\ job' = [job EXCEPT ![w] = r.ret]
        /\ lease' = [lease EXCEPT ![w] = r.locked_until]
        /\ pc' = [pc EXCEPT ![w] = IF r.ret = None THEN "expire" ELSE "dispatch"]
    /\ UNCHANGED <<now, pending>>
    /\ UNCHANGED recorderVars
    /\ UNCHANGED loopVars
    /\ UNCHANGED contextVars

\* run_worker: job = claim_job(session, kinds=JOB_KINDS); no job: sleep and continue
WorkerClaim(w) ==
    /\ pc[w] = "claim"
    /\ \E r \in claim_job(w, JOB_KINDS) :
        /\ pending' = [pending EXCEPT ![w] = r.writes]
        /\ job' = [job EXCEPT ![w] = r.ret]
        /\ lease' = [lease EXCEPT ![w] = r.locked_until]
        /\ pc' = [pc EXCEPT ![w] = IF r.ret = None THEN "expire" ELSE "dispatch"]
    /\ UNCHANGED <<now, focus_jobs>>
    /\ UNCHANGED recorderVars
    /\ UNCHANGED loopVars
    /\ UNCHANGED contextVars

\* run_worker: await _dispatch_job(job) returns
HandlerReturns(w) ==
    /\ pc[w] = "dispatch"
    /\ pc' = [pc EXCEPT ![w] = "complete"]
    /\ UNCHANGED <<now, focus_jobs, pending, job, lease>>
    /\ UNCHANGED recorderVars
    /\ UNCHANGED loopVars
    /\ UNCHANGED contextVars

\* run_worker: await _dispatch_job(job) raises
HandlerRaises(w) ==
    /\ pc[w] = "dispatch"
    /\ pc' = [pc EXCEPT ![w] = "fail"]
    /\ UNCHANGED <<now, focus_jobs, pending, job, lease>>
    /\ UNCHANGED recorderVars
    /\ UNCHANGED loopVars
    /\ UNCHANGED contextVars

\* run_worker: complete_job(session, job.id), and the commit that ends the scope
WorkerComplete(w) ==
    /\ pc[w] = "complete"
    /\ focus_jobs' = complete_job(w, job[w]) @@ View(w)
    /\ pending' = [pending EXCEPT ![w] = NoWrites]
    /\ job' = [job EXCEPT ![w] = None]
    /\ lease' = [lease EXCEPT ![w] = NULL]
    /\ pc' = [pc EXCEPT ![w] = "expire"]
    /\ UNCHANGED now
    /\ UNCHANGED recorderVars
    /\ UNCHANGED loopVars
    /\ UNCHANGED contextVars

\* run_worker: fail_job(session, job.id, str(e)), and the commit that ends the scope
WorkerFail(w) ==
    /\ pc[w] = "fail"
    /\ focus_jobs' = fail_job(w, job[w], "error") @@ View(w)
    /\ pending' = [pending EXCEPT ![w] = NoWrites]
    /\ job' = [job EXCEPT ![w] = None]
    /\ lease' = [lease EXCEPT ![w] = NULL]
    /\ pc' = [pc EXCEPT ![w] = "expire"]
    /\ UNCHANGED now
    /\ UNCHANGED recorderVars
    /\ UNCHANGED loopVars
    /\ UNCHANGED contextVars

\* the worker process dies while it holds a job: the server rolls its open
\* transaction back; job[w] and lease[w] keep what the process had claimed
WorkerDies(w) ==
    /\ pc[w] \in {"dispatch", "complete", "fail"}
    /\ RollbackWrites(w)
    /\ pc' = [pc EXCEPT ![w] = "dead"]
    /\ UNCHANGED <<now, job, lease>>
    /\ UNCHANGED recorderVars
    /\ UNCHANGED loopVars
    /\ UNCHANGED contextVars

NextWorker ==
    \/ \E h \in Hooks : \E in \in EnqueueInputs : HookEnqueue(h, in)
    \/ \E w \in Procs : WorkerExpire(w)
    \/ \E w \in Procs : WorkerClaim(w)
    \/ \E w \in Procs : HandlerReturns(w)
    \/ \E w \in Procs : HandlerRaises(w)
    \/ \E w \in Procs : WorkerComplete(w)
    \/ \E w \in Procs : WorkerFail(w)
    \/ \E w \in Procs : WorkerDies(w)
    \/ Tick

SpecWorker == InitWorker /\ [][NextWorker]_vars

----------------------------------------------------------------------------
\* A job late in its life: it has been claimed a times before time 0, the
\* lease of each claim having run out and been reset by expire_stale_leases

SeededJob(a, max_attempts) ==
    [ kind |-> "turn_summary", payload |-> [turn_id |-> 1], dedupe_key |-> NoKey,
      status |-> IF a = 0 THEN "queued" ELSE "retry",
      priority |-> DefaultPriority, attempts |-> a, max_attempts |-> max_attempts,
      locked_until |-> NULL, error_message |-> "",
      created_at |-> 0 - a * (LeaseSeconds + 1) ]

InitBackoff ==
    /\ now = 0
    /\ \E a \in 0..SeedAttempts : \E m \in {3, DefaultMaxAttempts} :
        focus_jobs = 1 :> SeededJob(a, m)
    /\ pending = [p \in AllProcs |-> NoWrites]
    /\ pc = [p \in AllProcs |-> "idle"]
    /\ job = [p \in AllProcs |-> None]
    /\ lease = [p \in AllProcs |-> NULL]
    /\ RecorderIdle
    /\ _running = [w \in Procs |-> TRUE]
    /\ oneshot = [w \in Procs |-> NoRun]
    /\ ContextIdle

NextBackoff ==
    \/ \E p \in Procs : Claim(p, JOB_KINDS)
    \/ \E p \in Procs : Fail(p)
    \/ \E p \in Procs : Expire(p)
    \/ Tick

SpecBackoff == InitBackoff /\ [][NextBackoff]_vars

----------------------------------------------------------------------------
\* The session recorder: ingestion/claude_code.py and context/recorder.py

SessionId == "s"

\* one JSONL record: obj["type"], isSidechain or isMeta, message["role"] and
\* the text that _extract_text_content finds in message["content"]
Line(type, meta, role, text) ==
    [ type |-> type, meta |-> meta, role |-> role, text |-> text ]

\* the records the session may write: user prompts, a user record without text
\* (tool results only), an assistant answer, a summary record, a meta record
\* and a command message
Lines ==
    { Line("user", FALSE, "user", "hi"),
      Line("user", FALSE, "user", ""),
      Line("assistant", FALSE, "assistant", "ok"),
      Line("summary", FALSE, "", ""),
      Line("user", TRUE, "user", "hi"),
      Line("user", FALSE, "user", "<command-name>") }

\* text_content.strip().startswith(("<command-name>", "<local-command"))
IsCommand(text) == text \in {"<command-name>", "<local-command"}

\* first pass of parse_session_into_turns: the records that are kept
Kept(line) ==
    /\ line.type \in {"user", "assistant"}
    /\ ~line.meta
    /\ ~(line.text # "" /\ IsCommand(line.text))

\* hashlib.md5(content.encode()).hexdigest(): equal for equal contents, and
\* taken to differ for different contents
compute_content_hash(content) == <<"md5", content>>

_finalize_turn(turn, index) ==
    [ turn_number |-> index,
      user_message |-> turn.user_message,
      assistant_text |-> turn.assistant_texts,
      raw_jsonl |-> turn.raw_lines,
      content_hash |-> compute_content_hash(turn.raw_lines) ]

\* variant: a turn is kept whether or not its user record has a text
FlushAlways(current_turn, turns) ==
    IF Len(current_turn) > 0
    THEN Append(turns, _finalize_turn(current_turn[1], Len(turns)))
    ELSE turns

\* if current_turn and current_turn.get("user_message"): finalize and append
Flush(current_turn, turns) ==
    IF Len(current_turn) > 0 /\ current_turn[1].user_message # ""
    THEN Append(turns, _finalize_turn(current_turn[1], Len(turns)))
    ELSE turns

\* second pass: current_turn is << >> for None and <<turn>> otherwise
RECURSIVE GroupTurns(_, _, _, _)
GroupTurns(messages, i, current_turn, turns) ==
    IF i > Len(messages)
    THEN Flush(current_turn, turns)
    ELSE IF messages[i].role = "user"
    THEN GroupTurns(messages, i + 1,
                    << [ user_message |-> messages[i].text,
                         assistant_texts |-> << >>,
                         raw_lines |-> << messages[i] >> ] >>,
                    Flush(current_turn, turns))
    ELSE IF messages[i].role = "assistant" /\ Len(current_turn) > 0
    THEN GroupTurns(messages, i + 1,
                    << [ current_turn[1] EXCEPT
                           !.assistant_texts =
                               IF messages[i].text # "" THEN Append(@, messages[i].text) ELSE @,
                           !.raw_lines = Append(@, messages[i]) ] >>,
                    turns)
    ELSE GroupTurns(messages, i + 1, current_turn, turns)

parse_session_into_turns(file) == GroupTurns(SelectSeq(file, Kept), 1, << >>, << >>)

\* the stored turns of a session
TurnsOf(session_id) ==
    SelectSeq(agent_turns, LAMBDA t : t.session_id = session_id)

\* variant: the stored hashes are not looked at
ExistingHashesNone(session_id) == {}

\* existing_hashes: empty for a session that is created by this call, else the
\* content_hash of each turn loaded with the session
ExistingHashes(session_id) ==
    IF session_id \notin DOMAIN agent_sessions
    THEN {}
    ELSE { TurnsOf(session_id)[i].content_hash : i \in 1..Len(TurnsOf(session_id)) }

\* a nullable text column: Null, or Text(s) for the string s
Null == << >>
Text(s) == << s >>

\* the row of the session: turn_count as record_session sets it, the summary
\* columns left at their defaults
AgentSession(turn_count) ==
    [ turn_count |-> turn_count, session_title |-> Null,
      session_summary |-> Null, is_processed |-> FALSE ]

AgentTurn(session_id, turn_data) ==
    [ session_id |-> session_id,
      turn_number |-> turn_data.turn_number,
      user_message |-> turn_data.user_message,
      content_hash |-> turn_data.content_hash,
      raw_jsonl |-> turn_data.raw_jsonl,
      assistant_text |-> turn_data.assistant_text,
      turn_title |-> Null,
      assistant_summary |-> Null ]

\* UniqueConstraint("session_id", "turn_number"): the flush of an insert fails
UniqueViolation(session_id, new_turns) ==
    \E i \in 1..Len(new_turns) : \E j \in 1..Len(TurnsOf(session_id)) :
        TurnsOf(session_id)[j].turn_number = new_turns[i].turn_number

\* record_session on the transcript as it is now, in a session scope that
\* commits when it returns and rolls back when it raises
record_session(session_id) ==
    LET turns == parse_session_into_turns(transcript)
        existing_hashes == ExistingHashes(session_id)
        new_turns == SelectSeq(turns, LAMBDA t : t.content_hash \notin existing_hashes)
    IN  IF ~path_exists
        THEN [ result |-> [turns_recorded |-> 0, turns_skipped |-> 0,
                           error |-> "file_not_found"],
               agent_sessions |-> agent_sessions,
               agent_turns |-> agent_turns ]
        ELSE IF turns = << >>
        THEN [ result |-> [turns_recorded |-> 0, turns_skipped |-> 0, error |-> ""],
               agent_sessions |-> agent_sessions,
               agent_turns |-> agent_turns ]
        ELSE IF UniqueViolation(session_id, new_turns)
        THEN [ result |-> [turns_recorded |-> 0, turns_skipped |-> 0,
                           error |-> "IntegrityError"],
               agent_sessions |-> agent_sessions,
               agent_turns |-> agent_turns ]
        ELSE [ result |-> [turns_recorded |-> Len(new_turns),
                           turns_skipped |-> Len(turns) - Len(new_turns),
                           error |-> ""],
               agent_sessions |->
                   (session_id :>
                      IF session_id \in DOMAIN agent_sessions
                      THEN [agent_sessions[session_id] EXCEPT
                              !.turn_count = Cardinality(existing_hashes) + Len(new_turns)]
                      ELSE AgentSession(Len(new_turns)))
                   @@ agent_sessions,
               agent_turns |->
                   agent_turns \o [i \in 1..Len(new_turns) |-> AgentTurn(session_id, new_turns[i])] ]

InitRecorder ==
    /\ now = 0
    /\ focus_jobs = NoWrites
    /\ pending = [p \in AllProcs |-> NoWrites]
    /\ pc = [p \in AllProcs |-> "idle"]
    /\ job = [p \in AllProcs |-> None]
    /\ lease = [p \in AllProcs |-> NULL]
    /\ RecorderIdle
    /\ _running = [w \in Procs |-> TRUE]
    /\ oneshot = [w \in Procs |-> NoRun]
    /\ ContextIdle

\* the agent session goes on: a record is appended to the transcript file
AppendRecord(line) ==
    /\ path_exists
    /\ Len(transcript) < MaxLines
    /\ transcript' = Append(transcript, line)
    /\ UNCHANGED <<path_exists, agent_sessions, agent_turns, result, handler_tx>>
    /\ UNCHANGED queueVars
    /\ UNCHANGED loopVars
    /\ UNCHANGED contextVars

RecordSession ==
    /\ result' = record_session(SessionId).result
    /\ agent_sessions' = record_session(SessionId).agent_sessions
    /\ agent_turns' = record_session(SessionId).agent_turns
    /\ UNCHANGED <<path_exists, transcript, handler_tx>>
    /\ UNCHANGED queueVars
    /\ UNCHANGED loopVars
    /\ UNCHANGED contextVars

NextRecorder ==
    \/ \E line \in Lines : AppendRecord(line)
    \/ RecordSession

SpecRecorder == InitRecorder /\ [][NextRecorder]_vars

----------------------------------------------------------------------------
\* Shutdown of a worker: SIGINT or SIGTERM may arrive at any point of the loop

\* _handle_shutdown: _running = False
_handle_shutdown(w) ==
    /\ pc[w] \notin {"stopped", "dead"}
    /\ _running[w]
    /\ _running' = [_running EXCEPT ![w] = FALSE]
    /\ UNCHANGED oneshot
    /\ UNCHANGED contextVars
    /\ UNCHANGED queueVars
    /\ UNCHANGED recorderVars

\* run_worker: while _running: is false, the loop ends
WorkerStops(w) ==
    /\ pc[w] = "expire"
    /\ ~_running[w]
    /\ pc' = [pc EXCEPT ![w] = "stopped"]
    /\ UNCHANGED <<now, focus_jobs, pending, job, lease>>
    /\ UNCHANGED recorderVars
    /\ UNCHANGED loopVars
    /\ UNCHANGED contextVars

NextShutdown ==
    \/ \E h \in Hooks : \E in \in EnqueueInputs : HookEnqueue(h, in)
    \/ \E w \in Procs : WorkerExpire(w)
    \/ \E w \in Procs : WorkerClaim(w)
    \/ \E w \in Procs : HandlerReturns(w)
    \/ \E w \in Procs : HandlerRaises(w)
    \/ \E w \in Procs : WorkerComplete(w)
    \/ \E w \in Procs : WorkerFail(w)
    \/ \E w \in Procs : _handle_shutdown(w)
    \/ \E w \in Procs : WorkerStops(w)
    \/ Tick

SpecShutdown == InitWorker /\ [][NextShutdown]_vars

----------------------------------------------------------------------------
\* The pipeline of one session: the hook enqueues session_process jobs, the
\* workers run the handlers of worker.py.  A handler works in a session of its
\* own (async with get_session()), not in the one that holds the worker's claim.

\* s[:n]
Prefix(s, n) == IF Len(s) <= n THEN s ELSE SubSeq(s, 1, n)

\* the user prompts of the session of the pipeline, in order: each record of a
\* transcript differs from the others (it carries a uuid and a timestamp)
PipelineTexts == <<"hi", "yo", "ok", "so">>

\* variant: a size that leaves out the last record of the transcript
FileSizeStale == IF path_exists /\ transcript # << >> THEN Len(transcript) - 1 ELSE 0

\* path.stat().st_size, 0 when the file cannot be read: the transcript is only
\* appended to, so its size is given by the number of its records
file_size == IF path_exists THEN Len(transcript) ELSE 0

InitPipeline ==
    /\ now = 0
    /\ focus_jobs = NoWrites
    /\ pending = [p \in AllProcs |-> NoWrites]
    /\ pc = [p \in AllProcs |-> IF p \in Hooks THEN "idle" ELSE "expire"]
    /\ job = [p \in AllProcs |-> None]
    /\ lease = [p \in AllProcs |-> NULL]
    /\ path_exists \in BOOLEAN
    /\ transcript = << >>
    /\ agent_sessions = << >>
    /\ agent_turns = << >>
    /\ result = [turns_recorded |-> 0, turns_skipped |-> 0, error |-> ""]
    /\ handler_tx = [w \in Procs |-> NoTx]
    /\ _running = [w \in Procs |-> TRUE]
    /\ oneshot = [w \in Procs |-> NoRun]
    /\ ContextIdle

\* the agent session goes on: the user's next prompt is appended, up to cap
\* records
SessionGoesOn(cap) ==
    /\ Len(transcript) < cap
    /\ Len(transcript) < Len(PipelineTexts)
    /\ AppendRecord(Line("user", FALSE, "user", PipelineTexts[Len(transcript) + 1]))

\* enqueue_session_recording(session_id, transcript_path): one session_process
\* job for each size of the transcript, in a session that commits at once
enqueue_session_recording(h) ==
    LET dedupe_key == <<"session_process", SessionId, file_size>>
        r == enqueue_job(h, "session_process", [session_id |-> SessionId],
                         dedupe_key, 5, DefaultMaxAttempts)
    IN  /\ enqueue_ready(h, dedupe_key)
        /\ focus_jobs' = r.writes @@ focus_jobs
        /\ UNCHANGED <<now, pending, pc, job, lease>>
        /\ UNCHANGED recorderVars
        /\ UNCHANGED loopVars
        /\ UNCHANGED contextVars

\* return job is not None
RecordingEnqueued(h) ==
    enqueue_job(h, "session_process", [session_id |-> SessionId],
                <<"session_process", SessionId, file_size>>, 5, DefaultMaxAttempts).ret # None

\* the job that worker w holds, as claim_job returned it
Held(w) == pending[w][job[w]]

Dispatching(w, kinds) ==
    /\ pc[w] = "dispatch"
    /\ Held(w).kind \in kinds

\* the ids of the stored turns of the session: a turn's id is its place in
\* agent_turns
TurnIds(turns, session_id) ==
    { i \in 1..Len(turns) : turns[i].session_id = session_id }

\* the calls of enqueue_job that process_session_job makes, in order: three
\* for each turn that has no summary, then one for the session
RECURSIVE ChildInputs(_, _, _)
ChildInputs(turns, session_id, i) ==
    IF i > Len(turns)
    THEN << <<"session_summary", [session_id |-> session_id],
              <<"session_summary", session_id>>, 25, DefaultMaxAttempts>> >>
    ELSE IF turns[i].session_id = session_id /\ turns[i].assistant_summary = Null
    THEN << <<"turn_summary", [turn_id |-> i], <<"turn_summary", i>>, 15, DefaultMaxAttempts>>,
            <<"entity_extract", [turn_id |-> i], <<"entity_extract", i>>, 20, DefaultMaxAttempts>>,
            <<"artifact_extract", [turn_id |-> i], <<"artifact_extract", i>>, 18, DefaultMaxAttempts>> >>
         \o ChildInputs(turns, session_id, i + 1)
    ELSE ChildInputs(turns, session_id, i + 1)

\* variant: calls that insert whether or not the key is held
RECURSIVE EnqueueEachAlways(_, _)
EnqueueEachAlways(writes, ins) ==
    IF ins = << >>
    THEN writes
    ELSE LET in == Head(ins)
             ids == AllIds \cup DOMAIN writes \cup {0}
             id == 1 + CHOOSE m \in ids : \A o \in ids : o <= m
         IN  EnqueueEachAlways((id :> NewJob(in[1], in[2], in[3], in[4], in[5])) @@ writes,
                               Tail(ins))

\* a sequence of enqueue_job calls in one session: each sees the committed
\* rows and the rows the session has inserted so far
RECURSIVE EnqueueEach(_, _)
EnqueueEach(writes, ins) ==
    IF ins = << >>
    THEN writes
    ELSE LET in == Head(ins)
             seen == writes @@ focus_jobs
             ids == AllIds \cup DOMAIN writes \cup {0}
             id == 1 + CHOOSE m \in ids : \A o \in ids : o <= m
         IN  IF \E o \in DOMAIN seen : seen[o].dedupe_key = in[3]
             THEN EnqueueEach(writes, Tail(ins))
             ELSE EnqueueEach((id :> NewJob(in[1], in[2], in[3], in[4], in[5])) @@ writes,
                              Tail(ins))

\* the session of another worker's session_process handler holds uncommitted
\* rows of the session: an insert of the same session or turn waits for it
OtherTxOpen(w) == \E o \in Procs \ {w} : handler_tx[o].open

\* variant: a handler that does not look at the error of record_session
ProcessSessionJobIgnoresError(session_id) ==
    LET r == record_session(session_id)
    IN  [ result |-> r.result,
          raises |-> FALSE,
          new_turns |-> SubSeq(r.agent_turns, Len(agent_turns) + 1, Len(r.agent_turns)),
          turn_count |-> IF session_id \in DOMAIN r.agent_sessions
                         THEN r.agent_sessions[session_id].turn_count
                         ELSE 0 ]

\* process_session_job up to the inserts of record_session: its result, whether
\* the handler raises on it, the turns it inserts and the turn_count it sets
process_session_job(session_id) ==
    LET r == record_session(session_id)
    IN  [ result |-> r.result,
          raises |-> r.result.error # "",
          new_turns |-> SubSeq(r.agent_turns, Len(agent_turns) + 1, Len(r.agent_turns)),
          turn_count |-> IF session_id \in DOMAIN r.agent_sessions
                         THEN r.agent_sessions[session_id].turn_count
                         ELSE 0 ]

\* the writes of a session_process handler that are not yet committed: the
\* turns, the turn_count, and the child jobs, which are enqueued for the turns
\* without a summary that the handler's session sees after its inserts
OpenTx(h, session_id, turns) ==
    [ open |-> TRUE,
      new_turns |-> h.new_turns,
      turn_count |-> h.turn_count,
      jobs |-> EnqueueEach(NoWrites, ChildInputs(turns, session_id, 1)) ]

\* the session row after the handler's commit: the row it created, or the
\* stored row with the turn_count it computed
SessionRow(session_id, turn_count) ==
    IF session_id \in DOMAIN agent_sessions
    THEN [agent_sessions[session_id] EXCEPT !.turn_count = turn_count]
    ELSE AgentSession(turn_count)

\* variant: the child jobs are enqueued in a session of their own, which
\* commits before the session that holds the turns
SessionProcessEnqueuesFirst(w) ==
    /\ Dispatching(w, {"session_process"})
    /\ LET session_id == Held(w).payload.session_id
           h == process_session_job(session_id)
           tx == OpenTx(h, session_id, agent_turns \o h.new_turns)
       IN  /\ ~h.raises
           /\ h.result.turns_recorded > 0
           /\ ~OtherTxOpen(w)
           /\ result' = h.result
           /\ focus_jobs' = tx.jobs @@ focus_jobs
           /\ handler_tx' = [handler_tx EXCEPT ![w] = [tx EXCEPT !.jobs = NoWrites]]
           /\ pc' = [pc EXCEPT ![w] = "commit"]
    /\ UNCHANGED <<now, pending, job, lease>>
    /\ UNCHANGED <<path_exists, transcript, agent_sessions, agent_turns>>
    /\ UNCHANGED loopVars
    /\ UNCHANGED contextVars

\* a session_process handler runs up to the end of its session scope
SessionProcessRuns(w) ==
    /\ Dispatching(w, {"session_process"})
    /\ LET session_id == Held(w).payload.session_id
           h == process_session_job(session_id)
       IN  /\ result' = h.result
           /\ IF h.raises
              THEN \* raise RuntimeError(f"Recording failed: ..."): rollback
                   /\ pc' = [pc EXCEPT ![w] = "fail"]
                   /\ UNCHANGED <<agent_sessions, handler_tx>>
              ELSE IF h.result.turns_recorded = 0
              THEN \* nothing is inserted; the scope commits turn_count
                   /\ pc' = [pc EXCEPT ![w] = "complete"]
                   /\ agent_sessions' = record_session(session_id).agent_sessions
                   /\ UNCHANGED handler_tx
              ELSE IF OtherTxOpen(w)
              THEN \* the insert waits for the session that holds the rows
                   /\ pc' = [pc EXCEPT ![w] = "blocked"]
                   /\ handler_tx' = [handler_tx EXCEPT ![w] =
                          [ open |-> FALSE, new_turns |-> h.new_turns,
                            turn_count |-> h.turn_count, jobs |-> NoWrites ]]
                   /\ UNCHANGED agent_sessions
              ELSE /\ pc' = [pc EXCEPT ![w] = "commit"]
                   /\ handler_tx' = [handler_tx EXCEPT ![w] =
                          OpenTx(h, session_id, agent_turns \o h.new_turns)]
                   /\ UNCHANGED agent_sessions
    /\ UNCHANGED <<now, focus_jobs, pending, job, lease>>
    /\ UNCHANGED <<path_exists, transcript, agent_turns>>
    /\ UNCHANGED loopVars
    /\ UNCHANGED contextVars

\* the session that held the rows has committed: the waiting insert fails on
\* a unique constraint (IntegrityError), or goes through
SessionProcessUnblocked(w) ==
    /\ pc[w] = "blocked"
    /\ ~OtherTxOpen(w)
    /\ LET session_id == Held(w).payload.session_id
           h == handler_tx[w]
       IN  IF UniqueViolation(session_id, h.new_turns)
           THEN /\ pc' = [pc EXCEPT ![w] = "fail"]
                /\ handler_tx' = [handler_tx EXCEPT ![w] = NoTx]
                /\ result' = [turns_recorded |-> 0, turns_skipped |-> 0,
                              error |-> "IntegrityError"]
           ELSE /\ pc' = [pc EXCEPT ![w] = "commit"]
                /\ handler_tx' = [handler_tx EXCEPT ![w] =
                       OpenTx(h, session_id, agent_turns \o h.new_turns)]
                /\ UNCHANGED result
    /\ UNCHANGED <<now, focus_jobs, pending, job, lease>>
    /\ UNCHANGED <<path_exists, transcript, agent_sessions, agent_turns>>
    /\ UNCHANGED loopVars
    /\ UNCHANGED contextVars

\* the end of the handler's session scope: its rows and the child jobs are
\* committed together
SessionProcessCommits(w) ==
    /\ pc[w] = "commit"
    /\ LET session_id == Held(w).payload.session_id
       IN  agent_sessions' =
               (session_id :> SessionRow(session_id, handler_tx[w].turn_count))
               @@ agent_sessions
    /\ agent_turns' = agent_turns \o handler_tx[w].new_turns
    /\ focus_jobs' = handler_tx[w].jobs @@ focus_jobs
    /\ handler_tx' = [handler_tx EXCEPT ![w] = NoTx]
    /\ pc' = [pc EXCEPT ![w] = "complete"]
    /\ UNCHANGED <<now, pending, job, lease>>
    /\ UNCHANGED <<path_exists, transcript, result>>
    /\ UNCHANGED loopVars
    /\ UNCHANGED contextVars

\* a text column that is neither NULL nor empty
Truthy(column) == column # Null /\ column[1] # ""

\* what the summarizer does on one call: it raises (no API key, a failed
\* request), or its answer holds a TITLE: line, a SUMMARY: line, both or none
LlmOutcomes ==
    { [raises |-> TRUE, title |-> "", summary |-> ""],
      [raises |-> FALSE, title |-> "T", summary |-> "S"],
      [raises |-> FALSE, title |-> "T", summary |-> ""],
      [raises |-> FALSE, title |-> "", summary |-> "S"],
      [raises |-> FALSE, title |-> "", summary |-> ""] }

\* return title or user_message[:80], summary or user_message[:200]
_llm_summarize_turn(user_message, llm) ==
    [ title |-> IF llm.title # "" THEN llm.title ELSE Prefix(user_message, 80),
      summary |-> IF llm.summary # "" THEN llm.summary ELSE Prefix(user_message, 200) ]

\* variant: a handler that does not look for a summary the turn has
TurnSummaryOverwrites(turn, llm) ==
    LET user_msg == Prefix(turn.user_message, 200)
    IN  IF Len(user_msg) < 50
        THEN [turn EXCEPT
                !.turn_title = Text(IF user_msg # "" THEN Prefix(user_msg, 80)
                                    ELSE "Short exchange"),
                !.assistant_summary = Text(user_msg)]
        ELSE IF llm.raises
        THEN [turn EXCEPT !.turn_title = Text(Prefix(user_msg, 80)),
                          !.assistant_summary = Text(Prefix(user_msg, 200))]
        ELSE [turn EXCEPT !.turn_title = Text(_llm_summarize_turn(user_msg, llm).title),
                          !.assistant_summary = Text(_llm_summarize_turn(user_msg, llm).summary)]

\* the turn as process_turn_summary_job leaves it
TurnSummaryUpdate(turn, llm) ==
    LET user_msg == Prefix(turn.user_message, 200)
    IN  IF Truthy(turn.assistant_summary)
        THEN turn
        ELSE IF Len(user_msg) < 50
        THEN [turn EXCEPT
                !.turn_title = Text(IF user_msg # "" THEN Prefix(user_msg, 80)
                                    ELSE "Short exchange"),
                !.assistant_summary = Text(user_msg)]
        ELSE IF llm.raises
        THEN [turn EXCEPT !.turn_title = Text(Prefix(user_msg, 80)),
                          !.assistant_summary = Text(Prefix(user_msg, 200))]
        ELSE [turn EXCEPT !.turn_title = Text(_llm_summarize_turn(user_msg, llm).title),
                          !.assistant_summary = Text(_llm_summarize_turn(user_msg, llm).summary)]

\* process_turn_summary_job: the table agent_turns after the handler's commit;
\* a turn that is not found is skipped
process_turn_summary_job(turn_id, llm) ==
    IF turn_id \notin 1..Len(agent_turns)
    THEN agent_turns
    ELSE [agent_turns EXCEPT ![turn_id] = TurnSummaryUpdate(@, llm)]

TurnSummaryRuns(w, llm) ==
    /\ Dispatching(w, {"turn_summary"})
    /\ agent_turns' = process_turn_summary_job(Held(w).payload.turn_id, llm)
    /\ pc' = [pc EXCEPT ![w] = "complete"]
    /\ UNCHANGED <<now, focus_jobs, pending, job, lease>>
    /\ UNCHANGED <<path_exists, transcript, agent_sessions, result, handler_tx>>
    /\ UNCHANGED loopVars
    /\ UNCHANGED contextVars

\* process_entity_extract_job, process_artifact_extract_job: they write rows of
\* tables that are not part of this model, and return
ExtractRuns(w) ==
    /\ Dispatching(w, {"entity_extract", "artifact_extract"})
    /\ pc' = [pc EXCEPT ![w] = "complete"]
    /\ UNCHANGED <<now, focus_jobs, pending, job, lease>>
    /\ UNCHANGED recorderVars
    /\ UNCHANGED loopVars
    /\ UNCHANGED contextVars

\* sorted(agent_session.turns, key=lambda t: t.turn_number)
SortedTurns(session_id) ==
    LET T == TurnsOf(session_id)
    IN  [ k \in 1..Len(T) |->
            T[CHOOSE i \in 1..Len(T) :
                Cardinality({ j \in 1..Len(T) : T[j].turn_number < T[i].turn_number }) = k - 1] ]

\* parts: the title of each turn, or the start of its user message
RECURSIVE Parts(_, _)
Parts(turns, i) ==
    IF i > Len(turns)
    THEN << >>
    ELSE IF Truthy(turns[i].turn_title)
    THEN << turns[i].turn_title[1] >> \o Parts(turns, i + 1)
    ELSE IF turns[i].user_message # ""
    THEN << Prefix(turns[i].user_message, 80) >> \o Parts(turns, i + 1)
    ELSE Parts(turns, i + 1)

\* "; ".join(parts)
RECURSIVE Join(_, _)
Join(parts, i) ==
    IF i > Len(parts) THEN ""
    ELSE IF i = Len(parts) THEN parts[i]
    ELSE parts[i] \o "; " \o Join(parts, i + 1)

\* process_session_summary_job: the session row as the handler flushes it, and
\* whether the handler raises after the flush.  enqueue_job is not a name of
\* module worker (it is imported inside process_session_job only), so the call
\* that is to enqueue the skill_extract job raises NameError.
process_session_summary_job(session_id) ==
    LET parts == Parts(SortedTurns(session_id), 1)
    IN  IF session_id \notin DOMAIN agent_sessions \/ parts = << >>
        THEN [ raises |-> FALSE, flushed |-> agent_sessions ]
        ELSE [ raises |-> TRUE,
               flushed |->
                   (session_id :>
                      [agent_sessions[session_id] EXCEPT
                         !.session_title = Text(Prefix(parts[1], 100)),
                         !.session_summary = Text(Prefix(Join(parts, 1), 500)),
                         !.is_processed = TRUE])
                   @@ agent_sessions ]

\* the handler's session scope commits when the handler returns and rolls
\* back when it raises
SessionSummaryRuns(w) ==
    /\ Dispatching(w, {"session_summary"})
    /\ LET h == process_session_summary_job(Held(w).payload.session_id)
       IN  IF h.raises
           THEN /\ pc' = [pc EXCEPT ![w] = "fail"]
                /\ UNCHANGED agent_sessions
           ELSE /\ pc' = [pc EXCEPT ![w] = "complete"]
                /\ agent_sessions' = h.flushed
    /\ UNCHANGED <<now, focus_jobs, pending, job, lease>>
    /\ UNCHANGED <<path_exists, transcript, agent_turns, result, handler_tx>>
    /\ UNCHANGED loopVars
    /\ UNCHANGED contextVars

\* the jobs that wait for a retry deadline
Deadlines ==
    { focus_jobs[id].locked_until : id \in
        { i \in DOMAIN focus_jobs : /\ focus_jobs[i].status = "retry"
                                    /\ focus_jobs[i].locked_until # NULL
                                    /\ focus_jobs[i].locked_until >= now } }

\* time passes until the next retry deadline is over; the clock of the model
\* stands still while a worker holds a job or could claim one
Wait ==
    /\ Deadlines # {}
    /\ \A w \in Procs : pc[w] \in {"expire", "claim"} /\ Claimable(w, JOB_KINDS) = {}
    /\ now' = 1 + CHOOSE t \in Deadlines : \A o \in Deadlines : t <= o
    /\ UNCHANGED <<focus_jobs, pending, pc, job, lease>>
    /\ UNCHANGED recorderVars
    /\ UNCHANGED loopVars
    /\ UNCHANGED contextVars

\* one worker process drains the queue
PipelineWorkers == {1}

NextPipeline ==
    \/ SessionGoesOn(MaxPipelineLines)
    \/ \E h \in Hooks : enqueue_session_recording(h)
    \/ \E w \in PipelineWorkers : WorkerExpire(w)
    \/ \E w \in PipelineWorkers : WorkerClaim(w)
    \/ \E w \in PipelineWorkers : SessionProcessRuns(w)
    \/ \E w \in PipelineWorkers : SessionProcessCommits(w)
    \/ \E w \in PipelineWorkers : \E llm \in LlmOutcomes : TurnSummaryRuns(w, llm)
    \/ \E w \in PipelineWorkers : ExtractRuns(w)
    \/ \E w \in PipelineWorkers : SessionSummaryRuns(w)
    \/ \E w \in PipelineWorkers : WorkerComplete(w)
    \/ \E w \in PipelineWorkers : WorkerFail(w)
    \/ Wait

SpecPipeline == InitPipeline /\ [][NextPipeline]_vars

\* two worker processes drain the queue, within the first retry delay
NextHandlers ==
    \/ SessionGoesOn(MaxHandlerLines)
    \/ \E h \in Hooks : enqueue_session_recording(h)
    \/ \E w \in Procs : WorkerExpire(w)
    \/ \E w \in Procs : WorkerClaim(w)
    \/ \E w \in Procs : SessionProcessRuns(w)
    \/ \E w \in Procs : SessionProcessUnblocked(w)
    \/ \E w \in Procs : SessionProcessCommits(w)
    \/ \E w \in Procs : \E llm \in LlmOutcomes : TurnSummaryRuns(w, llm)
    \/ \E w \in Procs : ExtractRuns(w)
    \/ \E w \in Procs : SessionSummaryRuns(w)
    \/ \E w \in Procs : WorkerComplete(w)
    \/ \E w \in Procs : WorkerFail(w)

SpecHandlers == InitPipeline /\ [][NextHandlers]_vars

----------------------------------------------------------------------------
\* One-shot processing: process_pending_jobs(max_jobs), called by the worker
\* processes while the hooks enqueue

InitPending ==
    /\ now = 0
    /\ focus_jobs = NoWrites
    /\ pending = [p \in AllProcs |-> NoWrites]
    /\ pc = [p \in AllProcs |-> IF p \in Hooks THEN "idle" ELSE "start"]
    /\ job = [p \in AllProcs |-> None]
    /\ lease = [p \in AllProcs |-> NULL]
    /\ RecorderIdle
    /\ _running = [w \in Procs |-> TRUE]
    /\ oneshot = [w \in Procs |-> NoRun]
    /\ ContextIdle

\* processed = 0; async with get_session(): expire_stale_leases(session)
PendingExpire(w, max_jobs) ==
    /\ pc[w] = "start"
    /\ update_ready(w, Stale(w))
    /\ focus_jobs' = expire_stale_leases(w).writes @@ focus_jobs
    /\ oneshot' = [oneshot EXCEPT ![w] = [NoRun EXCEPT !.max_jobs = max_jobs]]
    /\ pc' = [pc EXCEPT ![w] = "loop"]
    /\ UNCHANGED <<now, pending, job, lease>>
    /\ UNCHANGED recorderVars
    /\ UNCHANGED _running
    /\ UNCHANGED contextVars

\* variant: a loop that claims until the queue is empty
PendingClaimUnbounded(w) ==
    /\ pc[w] = "loop"
    /\ \E r \in claim_job(w, JOB_KINDS) :
        /\ pending' = [pending EXCEPT ![w] = r.writes]
        /\ job' = [job EXCEPT ![w] = r.ret]
        /\ lease' = [lease EXCEPT ![w] = r.locked_until]
        /\ IF r.ret = None
           THEN /\ pc' = [pc EXCEPT ![w] = "returned"]
                /\ oneshot' = [oneshot EXCEPT ![w].returned = oneshot[w].processed]
           ELSE /\ pc' = [pc EXCEPT ![w] = "dispatch"]
                /\ oneshot' = [oneshot EXCEPT ![w].iterations = @ + 1]
    /\ UNCHANGED <<now, focus_jobs>>
    /\ UNCHANGED recorderVars
    /\ UNCHANGED _running
    /\ UNCHANGED contextVars

\* for _ in range(max_jobs): job = claim_job(session, kinds=JOB_KINDS);
\* if not job: break
PendingClaim(w) ==
    /\ pc[w] = "loop"
    /\ oneshot[w].iterations < oneshot[w].max_jobs
    /\ \E r \in claim_job(w, JOB_KINDS) :
        /\ pending' = [pending EXCEPT ![w] = r.writes]
        /\ job' = [job EXCEPT ![w] = r.ret]
        /\ lease' = [lease EXCEPT ![w] = r.locked_until]
        /\ IF r.ret = None
           THEN /\ pc' = [pc EXCEPT ![w] = "returned"]
                /\ oneshot' = [oneshot EXCEPT ![w].returned = oneshot[w].processed]
           ELSE /\ pc' = [pc EXCEPT ![w] = "dispatch"]
                /\ oneshot' = [oneshot EXCEPT ![w].iterations = @ + 1]
    /\ UNCHANGED <<now, focus_jobs>>
    /\ UNCHANGED recorderVars
    /\ UNCHANGED _running
    /\ UNCHANGED contextVars

\* the range is used up: return processed
PendingReturns(w) ==
    /\ pc[w] = "loop"
    /\ oneshot[w].iterations = oneshot[w].max_jobs
    /\ pc' = [pc EXCEPT ![w] = "returned"]
    /\ oneshot' = [oneshot EXCEPT ![w].returned = oneshot[w].processed]
    /\ UNCHANGED <<now, focus_jobs, pending, job, lease>>
    /\ UNCHANGED recorderVars
    /\ UNCHANGED _running
    /\ UNCHANGED contextVars

\* complete_job(session, job.id); processed += 1; the scope commits
PendingComplete(w) ==
    /\ pc[w] = "complete"
    /\ focus_jobs' = complete_job(w, job[w]) @@ View(w)
    /\ pending' = [pending EXCEPT ![w] = NoWrites]
    /\ job' = [job EXCEPT ![w] = None]
    /\ lease' = [lease EXCEPT ![w] = NULL]
    /\ oneshot' = [oneshot EXCEPT ![w].processed = @ + 1]
    /\ pc' = [pc EXCEPT ![w] = "loop"]
    /\ UNCHANGED now
    /\ UNCHANGED recorderVars
    /\ UNCHANGED _running
    /\ UNCHANGED contextVars

\* except Exception: fail_job(session, job.id, str(e)); the scope commits
PendingFail(w) ==
    /\ pc[w] = "fail"
    /\ focus_jobs' = fail_job(w, job[w], "error") @@ View(w)
    /\ pending' = [pending EXCEPT ![w] = NoWrites]
    /\ job' = [job EXCEPT ![w] = None]
    /\ lease' = [lease EXCEPT ![w] = NULL]
    /\ pc' = [pc EXCEPT ![w] = "loop"]
    /\ UNCHANGED now
    /\ UNCHANGED recorderVars
    /\ UNCHANGED <<_running, oneshot>>
    /\ UNCHANGED contextVars

\* the steps of a call of process_pending_jobs by w
PendingStep(w) ==
    \/ \E max_jobs \in 0..MaxPendingJobs : PendingExpire(w, max_jobs)
    \/ PendingClaim(w)
    \/ PendingReturns(w)
    \/ HandlerReturns(w)
    \/ HandlerRaises(w)
    \/ PendingComplete(w)
    \/ PendingFail(w)

\* one process makes the call
PendingCallers == {1}

NextPending ==
    \/ \E h \in Hooks : \E in \in EnqueueInputs : HookEnqueue(h, in)
    \/ \E w \in PendingCallers : \E max_jobs \in 0..MaxPendingJobs : PendingExpire(w, max_jobs)
    \/ \E w \in PendingCallers : PendingClaim(w)
    \/ \E w \in PendingCallers : PendingReturns(w)
    \/ \E w \in PendingCallers : HandlerReturns(w)
    \/ \E w \in PendingCallers : HandlerRaises(w)
    \/ \E w \in PendingCallers : PendingComplete(w)
    \/ \E w \in PendingCallers : PendingFail(w)
    \/ Tick

\* the call goes on: the database answers and every handler comes to an end
SpecPending ==
    InitPending /\ [][NextPending]_vars /\ \A w \in PendingCallers : WF_vars(PendingStep(w))

----------------------------------------------------------------------------
\* Turn summaries: a session whose first prompt has one of several lengths is
\* recorded and its jobs are run by two workers, either of which may die

\* a text of n characters, n in 1..210, each the start of the longer ones
Block10 == "abcdefghij"
Block50 == Block10 \o "klmnopqrst" \o "uvwxyzABCD" \o "EFGHIJKLMN" \o "OPQRSTUVWX"
Block210 == Block50 \o Block50 \o Block50 \o Block50 \o Block10
Message(n) == SubSeq(Block210, 1, n)

\* the lengths of the prompt: around the limits 50, 80 and 200 of
\* process_turn_summary_job
MessageLengths == {1, 49, 50, 80, 81, 200, 201}

InitTurnSummary ==
    /\ now = 0
    /\ focus_jobs = NoWrites
    /\ pending = [p \in AllProcs |-> NoWrites]
    /\ pc = [p \in AllProcs |-> IF p \in Hooks THEN "idle" ELSE "expire"]
    /\ job = [p \in AllProcs |-> None]
    /\ lease = [p \in AllProcs |-> NULL]
    /\ path_exists = TRUE
    /\ \E n \in MessageLengths :
         transcript = << Line("user", FALSE, "user", Message(n)) >>
    /\ agent_sessions = << >>
    /\ agent_turns = << >>
    /\ result = [turns_recorded |-> 0, turns_skipped |-> 0, error |-> ""]
    /\ handler_tx = [w \in Procs |-> NoTx]
    /\ _running = [w \in Procs |-> TRUE]
    /\ oneshot = [w \in Procs |-> NoRun]
    /\ ContextIdle

NextTurnSummary ==
    \/ \E h \in Hooks : enqueue_session_recording(h)
    \/ \E w \in Procs : WorkerExpire(w)
    \/ \E w \in Procs : WorkerClaim(w)
    \/ \E w \in Procs : SessionProcessRuns(w)
    \/ \E w \in Procs : SessionProcessCommits(w)
    \/ \E w \in Procs : \E llm \in LlmOutcomes : TurnSummaryRuns(w, llm)
    \/ \E w \in Procs : ExtractRuns(w)
    \/ \E w \in Procs : SessionSummaryRuns(w)
    \/ \E w \in Procs : WorkerComplete(w)
    \/ \E w \in Procs : WorkerFail(w)
    \/ \E w \in Procs : WorkerDies(w)

SpecTurnSummary == InitTurnSummary /\ [][NextTurnSummary]_vars

----------------------------------------------------------------------------
\* The hook commands: simon retrieve --hook and simon record --hook, each a
\* process that Claude Code starts with a text on its stdin

\* what the text on stdin is: not JSON at all, a JSON value that is not an
\* object, or an object with some of the keys the hooks read
JsonKeys == {"prompt", "session_id", "transcript_path"}
JsonStrings == {"", "x"}
JsonObjects ==
    { [type |-> "object", fields |-> f] :
        f \in UNION { [K -> JsonStrings] : K \in SUBSET JsonKeys } }
JsonOthers ==
    { [type |-> t, fields |-> << >>] : t \in {"array", "number", "string", "null"} }
Stdin == {[type |-> "unparseable", fields |-> << >>]} \cup JsonOthers \cup JsonObjects

\* settings.context.enabled and settings.context.retrieval_enabled
HookSettings == [enabled : BOOLEAN, retrieval_enabled : BOOLEAN]

\* what the process meets once it runs: the database does not answer, the
\* classification is below 0.1, the formatter returns "" or a context text
HookOutcomes == {"db_error", "low_confidence", "no_context", "context"}

\* json.loads(sys.stdin.read()): JSONDecodeError (a ValueError) on a text that is not JSON
json_loads(stdin) ==
    [ raises |-> stdin.type = "unparseable", value |-> stdin ]

\* input_data.get(key, ""): only a dict has the method, any other value
\* raises AttributeError
DictGet(input_data, key) ==
    IF input_data.type # "object" THEN [ raises |-> TRUE, value |-> "" ]
    ELSE IF key \in DOMAIN input_data.fields
         THEN [ raises |-> FALSE, value |-> input_data.fields[key] ]
         ELSE [ raises |-> FALSE, value |-> "" ]

\* sys.exit(0)
SysExit(stdout) == [ exit_status |-> 0, stdout |-> stdout ]

\* an exception that nothing catches: the interpreter prints the traceback
\* and the process ends with status 1
UncaughtException == [ exit_status |-> 1, stdout |-> "" ]

\* _retrieve(): the coroutine that _hook_retrieve runs
_retrieve(settings, outcome) ==
    IF ~settings.enabled \/ ~settings.retrieval_enabled
    THEN [ raises |-> FALSE, value |-> "" ]
    ELSE IF outcome = "db_error" THEN [ raises |-> TRUE, value |-> "" ]
    ELSE IF outcome \in {"low_confidence", "no_context"} THEN [ raises |-> FALSE, value |-> "" ]
    ELSE [ raises |-> FALSE, value |-> "## Focus Context" ]

_hook_retrieve(stdin, settings, outcome) ==
    LET input_data == json_loads(stdin)
        prompt == DictGet(input_data.value, "prompt")
        cwd == DictGet(input_data.value, "cwd")
        context_text == _retrieve(settings, outcome)
    IN  IF input_data.raises THEN SysExit("")
        ELSE IF prompt.raises \/ cwd.raises THEN UncaughtException
        ELSE IF prompt.value = "" THEN SysExit("")
        ELSE IF context_text.raises THEN SysExit("")
        ELSE SysExit(context_text.value)

\* _hook_record reaches enqueue_session_recording, which catches every exception
HookRecordEnqueues(stdin) ==
    /\ ~json_loads(stdin).raises
    /\ stdin.type = "object"
    /\ DictGet(stdin, "session_id").value # ""
    /\ DictGet(stdin, "transcript_path").value # ""

_hook_record(stdin) ==
    LET input_data == json_loads(stdin)
        session_id == DictGet(input_data.value, "session_id")
        transcript_path == DictGet(input_data.value, "transcript_path")
        cwd == DictGet(input_data.value, "cwd")
    IN  IF input_data.raises THEN SysExit("")
        ELSE IF session_id.raises \/ transcript_path.raises \/ cwd.raises
             THEN UncaughtException
        ELSE SysExit("")

\* Claude Code starts a hook command
HookStarts(cmd, stdin, settings, outcome) ==
    /\ hook_run.state # "started"
    /\ hook_run' = [ state |-> "started", cmd |-> cmd, stdin |-> stdin,
                     settings |-> settings, outcome |-> outcome,
                     exit_status |-> NULL, stdout |-> "" ]
    /\ UNCHANGED classifierVars
    /\ UNCHANGED retrieverVars
    /\ UNCHANGED formatterVars
    /\ UNCHANGED skillVars
    /\ UNCHANGED extractVars
    /\ UNCHANGED queueVars
    /\ UNCHANGED recorderVars
    /\ UNCHANGED loopVars

HookRetrieveRuns ==
    /\ hook_run.state = "started"
    /\ hook_run.cmd = "retrieve"
    /\ LET r == _hook_retrieve(hook_run.stdin, hook_run.settings, hook_run.outcome)
       IN  hook_run' = [hook_run EXCEPT !.state = "exited",
                                        !.exit_status = r.exit_status,
                                        !.stdout = r.stdout]
    /\ UNCHANGED classifierVars
    /\ UNCHANGED retrieverVars
    /\ UNCHANGED formatterVars
    /\ UNCHANGED skillVars
    /\ UNCHANGED extractVars
    /\ UNCHANGED queueVars
    /\ UNCHANGED recorderVars
    /\ UNCHANGED loopVars

HookRecordRuns(h) ==
    /\ hook_run.state = "started"
    /\ hook_run.cmd = "record"
    /\ LET r == _hook_record(hook_run.stdin)
           dedupe_key == <<"session_process", SessionId, file_size>>
           e == enqueue_job(h, "session_process", [session_id |-> SessionId],
                            dedupe_key, 5, DefaultMaxAttempts)
       IN  /\ hook_run' = [hook_run EXCEPT !.state = "exited",
                                           !.exit_status = r.exit_status,
                                           !.stdout = r.stdout]
           /\ IF HookRecordEnqueues(hook_run.stdin) /\ hook_run.outcome # "db_error"
              THEN focus_jobs' = e.writes @@ focus_jobs
              ELSE UNCHANGED focus_jobs
    /\ UNCHANGED classifierVars
    /\ UNCHANGED retrieverVars
    /\ UNCHANGED formatterVars
    /\ UNCHANGED skillVars
    /\ UNCHANGED extractVars
    /\ UNCHANGED <<now, pending, pc, job, lease>>
    /\ UNCHANGED recorderVars
    /\ UNCHANGED loopVars

NextHooks ==
    \/ \E cmd \in {"retrieve", "record"}, stdin \in Stdin, settings \in HookSettings,
          outcome \in HookOutcomes : HookStarts(cmd, stdin, settings, outcome)
    \/ HookRetrieveRuns
    \/ \E h \in {3} : HookRecordRuns(h)

SpecHooks == Init /\ [][NextHooks]_vars

----------------------------------------------------------------------------
\* Text: the operations of Python strings and of the re module that the
\* classifier uses, on the strings of the model

UpperCase == "ABCDEFGHIJKLMNOPQRSTUVWXYZ"
LowerCase == "abcdefghijklmnopqrstuvwxyz"
Digits == "0123456789"
Whitespace == {" ", "\t", "\n"}

Char(s, i) == SubSeq(s, i, i)
Chars(s) == { Char(s, i) : i \in 1..Len(s) }

UpperChars == Chars(UpperCase)
AlnumChars == Chars(UpperCase) \cup Chars(LowerCase) \cup Chars(Digits)

\* str.isalnum() of one character
IsAlnum(c) == c \in AlnumChars

\* \w of a regular expression
IsWordChar(c) == IsAlnum(c) \/ c = "_"

LowerChar(c) ==
    IF c \in UpperChars
    THEN Char(LowerCase, CHOOSE i \in 1..Len(UpperCase) : Char(UpperCase, i) = c)
    ELSE c

\* str.lower()
RECURSIVE Lower(_)
Lower(s) == IF s = "" THEN "" ELSE LowerChar(Char(s, 1)) \o Lower(SubSeq(s, 2, Len(s)))

\* str.strip()
RECURSIVE Strip(_)
Strip(s) ==
    IF s = "" THEN ""
    ELSE IF Char(s, 1) \in Whitespace THEN Strip(SubSeq(s, 2, Len(s)))
    ELSE IF Char(s, Len(s)) \in Whitespace THEN Strip(SubSeq(s, 1, Len(s) - 1))
    ELSE s

\* \b at the gap before position i of text (i = Len(text) + 1: the end)
WordBoundary(text, i) ==
    LET before == i > 1 /\ IsWordChar(Char(text, i - 1))
        after == i <= Len(text) /\ IsWordChar(Char(text, i))
    IN  before # after

\* re.search(prefix + re.escape(pattern) + suffix, text), prefix and suffix
\* being \b or nothing
ReSearch(prefix, pattern, suffix, text) ==
    \E i \in 1..(Len(text) - Len(pattern) + 1) :
        /\ SubSeq(text, i, i + Len(pattern) - 1) = pattern
        /\ prefix => WordBoundary(text, i)
        /\ suffix => WordBoundary(text, i + Len(pattern))

_word_match(pattern, text) ==
    LET prefix == pattern # "" /\ IsAlnum(Char(pattern, 1))
        suffix == pattern # "" /\ IsAlnum(Char(pattern, Len(pattern)))
    IN  ReSearch(prefix, pattern, suffix, text)

\* re.compile(r'\b(w1|w2|...)\b', re.IGNORECASE).search(text)
PatternSearch(words, text) ==
    LET lowered == Lower(text)
    IN  \E w \in words : ReSearch(TRUE, w, TRUE, lowered)

_CODE_PATTERNS ==
    {"bug", "fix", "error", "refactor", "test", "function", "class", "module",
     "import", "file", "code", "implement", "build", "compile", "lint", "deploy"}
_EMAIL_PATTERNS ==
    {"email", "reply", "send", "draft", "inbox", "gmail", "message", "forward"}
_TASK_PATTERNS ==
    {"task", "todo", "priority", "deadline", "sprint", "kanban", "backlog",
     "assign", "commit", "milestone"}
_META_PATTERNS ==
    {"focus", "vault", "sync", "config", "setup", "hook", "daemon", "worker"}

_detect_query_type(prompt) ==
    IF PatternSearch(_CODE_PATTERNS, prompt) THEN "code"
    ELSE IF PatternSearch(_EMAIL_PATTERNS, prompt) THEN "email"
    ELSE IF PatternSearch(_TASK_PATTERNS, prompt) THEN "task"
    ELSE IF PatternSearch(_META_PATTERNS, prompt) THEN "meta"
    ELSE "general"

\* Path(cwd).name: the last component of the path, a trailing slash dropped
RECURSIVE PathName(_)
PathName(path) ==
    IF path = "" THEN ""
    ELSE IF Char(path, Len(path)) = "/" THEN PathName(SubSeq(path, 1, Len(path) - 1))
    ELSE LET slashes == { i \in 1..Len(path) : Char(path, i) = "/" }
         IN  IF slashes = {} THEN path
             ELSE SubSeq(path, 1 + CHOOSE i \in slashes : \A j \in slashes : j <= i,
                         Len(path))

\* extract_file_paths_from_text: the two patterns
\*   (?<!\w)(/[\w./-]+\.\w+)   and   (?<!\w)((?:src|tests|lib|app|pkg)/[\w./-]+\.\w+)
IsPathChar(c) == IsWordChar(c) \/ c \in {".", "/", "-"}

\* the end of the match whose "/" stands at position s of text, 0 when there is none:
\* [\w./-]+ runs as far as it can and gives back up to the last "." that a \w follows
PathEnd(text, s) ==
    LET run == { j \in s..Len(text) : \A k \in (s + 1)..j : IsPathChar(Char(text, k)) }
        last == CHOOSE j \in run : \A k \in run : k <= j
        dots == { k \in (s + 2)..(last - 1) :
                    Char(text, k) = "." /\ IsWordChar(Char(text, k + 1)) }
        dot == CHOOSE k \in dots : \A d \in dots : d <= k
        ext == { e \in (dot + 1)..Len(text) : \A k \in (dot + 1)..e : IsWordChar(Char(text, k)) }
    IN  IF dots = {} THEN 0 ELSE CHOOSE e \in ext : \A k \in ext : k <= e

\* where the "/" of a match that starts at position i stands, 0 when none starts there
PathSlash(text, i, roots) ==
    IF i > 1 /\ IsWordChar(Char(text, i - 1)) THEN 0
    ELSE IF roots = {} THEN (IF Char(text, i) = "/" THEN i ELSE 0)
    ELSE LET found == { r \in roots : /\ i + Len(r) <= Len(text)
                                      /\ SubSeq(text, i, i + Len(r)) = r \o "/" }
         IN  IF found = {} THEN 0 ELSE i + Len(CHOOSE r \in found : TRUE)

\* re.findall(pattern, text): the matches from left to right, none overlapping
RECURSIVE FindAll(_, _, _)
FindAll(text, i, roots) ==
    IF i > Len(text) THEN << >>
    ELSE LET s == PathSlash(text, i, roots)
             e == IF s = 0 THEN 0 ELSE PathEnd(text, s)
         IN  IF e = 0 THEN FindAll(text, i + 1, roots)
             ELSE << SubSeq(text, i, e) >> \o FindAll(text, e + 1, roots)

AppendNew(seq, x) == IF \E i \in 1..Len(seq) : seq[i] = x THEN seq ELSE Append(seq, x)

RECURSIVE KeepPaths(_, _, _)
KeepPaths(matches, i, paths) ==
    IF i > Len(matches) THEN paths
    ELSE IF Len(Strip(matches[i])) > 3
    THEN KeepPaths(matches, i + 1, AppendNew(paths, Strip(matches[i])))
    ELSE KeepPaths(matches, i + 1, paths)

extract_file_paths_from_text(text) ==
    IF text = "" THEN << >>
    ELSE KeepPaths(FindAll(text, 1, {}) \o FindAll(text, 1, {"src", "tests", "lib", "app", "pkg"}),
                   1, << >>)

----------------------------------------------------------------------------
\* The project-state file and the prompt classifier

\* the state that a missing file, or a file that does not parse, stands for
EmptyState == [ global |-> Null, workspaces |-> << >> ]

\* _read_state(): the file is an inode that holds the JSON text of a state,
\* all of it or only a part; a part of the text does not parse
_read_state ==
    IF state_dir.json = None THEN EmptyState
    ELSE IF inodes[state_dir.json].written # "all" THEN EmptyState
    ELSE inodes[state_dir.json].data

\* get_active_project(workspace): the slug of the workspace, else the global one
ActiveProject(state, workspace) ==
    IF /\ workspace # ""
       /\ workspace \in DOMAIN state.workspaces
       /\ state.workspaces[workspace] # ""
    THEN Text(state.workspaces[workspace])
    ELSE state.global

get_active_project(workspace) == ActiveProject(_read_state, workspace)

\* PromptClassification(); confidence is counted in tenths
NoClassification ==
    [ project_slugs |-> << >>, person_names |-> << >>, query_type |-> "general",
      workspace_project |-> Null, explicit_project |-> Null, file_paths |-> << >>,
      confidence |-> 0 ]

\* variant: no floor for a prompt that matched nothing
ConfidenceWithoutFloor(classification) ==
    LET s1 == IF Truthy(classification.explicit_project) THEN 9 ELSE 0
        s2 == IF classification.project_slugs # << >> /\ s1 < 8 THEN 8 ELSE s1
        s3 == IF classification.person_names # << >> /\ s2 < 7 THEN 7 ELSE s2
        s4 == IF Truthy(classification.workspace_project) /\ s3 < 5 THEN 5 ELSE s3
    IN  IF classification.query_type # "general" /\ s4 < 3 THEN 3 ELSE s4

_compute_confidence(classification) ==
    LET s1 == IF Truthy(classification.explicit_project) THEN 9 ELSE 0
        s2 == IF classification.project_slugs # << >> /\ s1 < 8 THEN 8 ELSE s1
        s3 == IF classification.person_names # << >> /\ s2 < 7 THEN 7 ELSE s2
        s4 == IF Truthy(classification.workspace_project) /\ s3 < 5 THEN 5 ELSE s3
        s5 == IF classification.query_type # "general" /\ s4 < 3 THEN 3 ELSE s4
    IN  IF s5 = 0 THEN 1 ELSE s5

\* for slug, name in self._projects: the slug or the name is a word of the prompt
RECURSIVE MatchProjects(_, _, _, _)
MatchProjects(projects, i, prompt_lower, project_slugs) ==
    IF i > Len(projects) THEN project_slugs
    ELSE LET slug == projects[i][1]
             name == projects[i][2]
         IN  IF \/ _word_match(slug, prompt_lower)
                \/ (name # "" /\ _word_match(Lower(name), prompt_lower))
             THEN MatchProjects(projects, i + 1, prompt_lower, AppendNew(project_slugs, slug))
             ELSE MatchProjects(projects, i + 1, prompt_lower, project_slugs)

\* for name, email in self._people
RECURSIVE MatchPeople(_, _, _, _)
MatchPeople(people, i, prompt_lower, person_names) ==
    IF i > Len(people) THEN person_names
    ELSE IF Len(people[i]) > 2 /\ _word_match(Lower(people[i]), prompt_lower)
    THEN MatchPeople(people, i + 1, prompt_lower, AppendNew(person_names, people[i]))
    ELSE MatchPeople(people, i + 1, prompt_lower, person_names)

classify(prompt, cwd) ==
    IF prompt = "" \/ Len(Strip(prompt)) < 3 THEN NoClassification
    ELSE LET prompt_lower == Lower(prompt)
             explicit == get_active_project(cwd)
             matched == [ NoClassification EXCEPT
                 !.explicit_project = IF Truthy(explicit) THEN explicit ELSE Null,
                 !.project_slugs =
                     MatchProjects(classifier._projects, 1, prompt_lower,
                                   IF Truthy(explicit) THEN << explicit[1] >> ELSE << >>),
                 !.workspace_project = IF cwd # "" THEN Text(Lower(PathName(cwd))) ELSE Null,
                 !.person_names = MatchPeople(classifier._people, 1, prompt_lower, << >>),
                 !.query_type = _detect_query_type(prompt),
                 !.file_paths = extract_file_paths_from_text(prompt) ]
         IN  [ matched EXCEPT !.confidence = _compute_confidence(matched) ]

\* the prompts, working directories and entities of the model
Prompts ==
    { "", "hi", "   ", " ok ", "hello there", "what is next",
      "fix the apollo bug", "Apollo deployment; ask Alice Nguyen to review",
      "ask alice nguyen", "al says apollos", "reply to Al", "the sprint backlog",
      "sync the vault", "read /home/u/apollo/src/main.py", "see src/a.py" }

Cwds == { "", "/", "/home/u/apollo", "/tmp/x" }

ProjectLists ==
    { << >>, << <<"apollo", "Apollo Program">> >>,
      << <<"zeus", "">>, <<"apollo", "Apollo">> >> }

PeopleLists == { << >>, << "Alice Nguyen" >>, << "Al", "Alice Nguyen" >> }

ProjectStates ==
    { [ global |-> g, workspaces |-> ws ] :
        g \in { Null, Text("zeus") },
        ws \in { << >>, [ c \in {"/home/u/apollo"} |-> "apollo" ] } }

\* the classifier has loaded its entities; the state file is missing or holds a state
InitClassifier ==
    /\ QueueIdle
    /\ RecorderIdle
    /\ LoopIdle
    /\ HookIdle
    /\ RetrieverIdle
    /\ FormatterIdle
    /\ SkillsIdle
    /\ ExtractIdle
    /\ \E projects \in ProjectLists, people \in PeopleLists :
          classifier = [ _projects |-> projects, _people |-> people ]
    /\ \/ state_dir = [ json |-> None, tmp |-> None ] /\ inodes = << >>
       \/ /\ state_dir = [ json |-> 1, tmp |-> None ]
          /\ \E state \in ProjectStates : inodes = << [ data |-> state, written |-> "all", by |-> None ] >>
    /\ classified = << >>
    /\ StateFileIdle

\* classifier.classify(prompt, cwd)
Classify(prompt, cwd) ==
    /\ classified = << >>
    /\ classified' = << [ prompt |-> prompt, cwd |-> cwd, result |-> classify(prompt, cwd) ] >>
    /\ UNCHANGED <<classifier, state_dir, inodes, writer, state_read>>
    /\ UNCHANGED hookVars
    /\ UNCHANGED retrieverVars
    /\ UNCHANGED formatterVars
    /\ UNCHANGED skillVars
    /\ UNCHANGED extractVars
    /\ UNCHANGED queueVars
    /\ UNCHANGED recorderVars
    /\ UNCHANGED loopVars

NextClassifier == \E prompt \in Prompts, cwd \in Cwds : Classify(prompt, cwd)

SpecClassifier == InitClassifier /\ [][NextClassifier]_vars

----------------------------------------------------------------------------
\* The context retriever. Each table of context_db lists its rows in the
\* order of the ORDER BY of the query that reads it; relevance scores are
\* counted in units of 1/6000, in which every score of the code is whole
\* (0.7 = 4200, 0.65 = 3900, 0.6 = 3600, 0.55 = 3300, 0.5 = 3000, 0.4 = 2400,
\* 0.3 = 1800, and 0.5 + 0.35 * score for a skill)

Take(seq, n) == IF Len(seq) <= n THEN seq ELSE SubSeq(seq, 1, n)

ContextBlock(source_type, source_id, relevance_score) ==
    [ source_type |-> source_type, source_id |-> source_id,
      relevance_score |-> relevance_score ]

\* workspace_path ILIKE '%pattern%'
ILike(text, pattern) == ReSearch(FALSE, Lower(pattern), FALSE, Lower(text))

RECURSIVE TurnBlocks(_, _)
TurnBlocks(turns, i) ==
    IF i > Len(turns) THEN << >>
    ELSE << ContextBlock("conversation", turns[i].id, 4200) >> \o TurnBlocks(turns, i + 1)

\* _get_recent_turns: project_id "" and workspace_path_like "" stand for None
_get_recent_turns(project_id, workspace_path_like, limit) ==
    LET Matches(turn) ==
            IF project_id # "" THEN turn.project_id = project_id
            ELSE IF workspace_path_like # "" THEN ILike(turn.workspace_path, workspace_path_like)
            ELSE TRUE
    IN  TurnBlocks(Take(SelectSeq(context_db.turns, Matches), limit), 1)

RECURSIVE TaskBlocks(_, _)
TaskBlocks(tasks, i) ==
    IF i > Len(tasks) THEN << >>
    ELSE << ContextBlock("task", tasks[i].id,
                         IF tasks[i].status = "in_progress" THEN 3600 ELSE 2400) >>
         \o TaskBlocks(tasks, i + 1)

_get_active_tasks(project_id) ==
    LET Matches(task) == /\ task.project_id = project_id
                         /\ task.status \in {"in_progress", "waiting", "backlog"}
    IN  TaskBlocks(Take(SelectSeq(context_db.tasks, Matches), 5), 1)

RECURSIVE CommitmentBlocks(_, _)
CommitmentBlocks(commitments, i) ==
    IF i > Len(commitments) THEN << >>
    ELSE << ContextBlock("commitment", commitments[i].id, 3000) >>
         \o CommitmentBlocks(commitments, i + 1)

_get_open_commitments(project_id) ==
    LET Matches(c) == /\ c.status = "open"
                      /\ project_id # "" => c.project_id = project_id
    IN  CommitmentBlocks(Take(SelectSeq(context_db.commitments, Matches), 3), 1)

\* for name in person_names[:3]: the first person whose name holds the name
RECURSIVE _get_person_context(_, _)
_get_person_context(person_names, i) ==
    IF i > Len(person_names) \/ i > 3 THEN << >>
    ELSE LET Matches(person) == ILike(person.name, person_names[i])
             found == SelectSeq(context_db.people, Matches)
         IN  (IF found = << >> THEN << >>
              ELSE << ContextBlock("person", found[1].id, 3000) >>)
             \o _get_person_context(person_names, i + 1)

RECURSIVE FileBlocks(_, _, _)
FileBlocks(turns, i, path) ==
    IF i > Len(turns) THEN << >>
    ELSE << ContextBlock("file_context", "file:" \o turns[i].id \o ":" \o path, 3900) >>
         \o FileBlocks(turns, i + 1, path)

\* for path in file_paths[:5]: the turns that touched the path
RECURSIVE _get_turns_by_file(_, _)
_get_turns_by_file(file_paths, i) ==
    IF i > Len(file_paths) \/ i > 5 THEN << >>
    ELSE LET Matches(turn) == file_paths[i] \in turn.files_touched
         IN  FileBlocks(Take(SelectSeq(context_db.turns, Matches), 3), 1, file_paths[i])
             \o _get_turns_by_file(file_paths, i + 1)

RECURSIVE ErrorBlocks(_, _)
ErrorBlocks(turns, i) ==
    IF i > Len(turns) THEN << >>
    ELSE << ContextBlock("error", "error:" \o turns[i].id, 3300) >> \o ErrorBlocks(turns, i + 1)

_get_recent_errors(project_id) ==
    LET Matches(turn) == /\ turn.errors_encountered
                         /\ project_id # "" => turn.project_id = project_id
    IN  ErrorBlocks(Take(SelectSeq(context_db.turns, Matches), 3), 1)

RECURSIVE SprintBlocks(_, _)
SprintBlocks(sprints, i) ==
    IF i > Len(sprints) THEN << >>
    ELSE << ContextBlock("sprint", sprints[i].id, 1800) >> \o SprintBlocks(sprints, i + 1)

_get_active_sprints ==
    LET Matches(sprint) == sprint.is_active
    IN  SprintBlocks(Take(SelectSeq(context_db.sprints, Matches), 3), 1)

\* re.split on the characters of seps: the pieces between them
RECURSIVE Split(_, _, _)
Split(s, seps, piece) ==
    IF s = "" THEN { piece }
    ELSE IF Char(s, 1) \in seps
    THEN { piece } \cup Split(SubSeq(s, 2, Len(s)), seps, "")
    ELSE Split(SubSeq(s, 2, Len(s)), seps, piece \o Char(s, 1))

RECURSIVE SplitEach(_, _, _)
SplitEach(strings, i, seps) ==
    IF i > Len(strings) THEN {}
    ELSE Split(Lower(strings[i]), seps, "") \cup SplitEach(strings, i + 1, seps)

\* Path(path).stem: the name without its last suffix
PathStem(path) ==
    LET name == PathName(path)
        dots == { i \in 2..Len(name) : Char(name, i) = "." }
    IN  IF dots = {} THEN name
        ELSE SubSeq(name, 1, (CHOOSE i \in dots : \A j \in dots : j <= i) - 1)

RECURSIVE Stems(_, _)
Stems(file_paths, i) ==
    IF i > Len(file_paths) THEN << >>
    ELSE << PathStem(file_paths[i]) >> \o Stems(file_paths, i + 1)

\* the keywords of the classification, the words of one or two characters dropped
PromptWords(classification) ==
    LET all == SplitEach(classification.project_slugs, 1, {"-"})
               \cup SplitEach(classification.person_names, 1, Whitespace)
               \cup (IF Truthy(classification.workspace_project)
                     THEN Split(Lower(classification.workspace_project[1]), {"-"}, "")
                     ELSE {})
               \cup (IF classification.query_type # "general"
                     THEN { classification.query_type } ELSE {})
               \cup SplitEach(Stems(classification.file_paths, 1), 1, {"_", "-", "."})
    IN  { w \in all : Len(w) > 2 }

\* _score_skill_relevance in units of 1/6000 of a point of relevance:
\* 0.35 * min(1.0, coverage + name_bonus)
SkillScore(skill, prompt_words) ==
    LET name_parts == Split(Lower(skill.name), {"_", "-"}, "")
        skill_words == { w \in name_parts \cup skill.words : Len(w) > 2 }
        overlap == prompt_words \cap skill_words
        coverage == (2100 * Cardinality(overlap)) \div Cardinality(prompt_words)
        name_bonus == IF prompt_words \cap name_parts # {} THEN 630 ELSE 0
    IN  IF overlap = {} THEN 0
        ELSE IF coverage + name_bonus > 2100 THEN 2100 ELSE coverage + name_bonus

\* list.sort(key=score, reverse=True): a stable sort, the greatest score first
RECURSIVE InsertByScore(_, _, _)
InsertByScore(sorted, x, i) ==
    IF i > Len(sorted) THEN Append(sorted, x)
    ELSE IF sorted[i].relevance_score < x.relevance_score
    THEN SubSeq(sorted, 1, i - 1) \o << x >> \o SubSeq(sorted, i, Len(sorted))
    ELSE InsertByScore(sorted, x, i + 1)

RECURSIVE SortByScore(_, _, _)
SortByScore(blocks, i, sorted) ==
    IF i > Len(blocks) THEN sorted
    ELSE SortByScore(blocks, i + 1, InsertByScore(sorted, blocks[i], 1))

RECURSIVE SkillBlocks(_, _, _)
SkillBlocks(skills, i, prompt_words) ==
    IF i > Len(skills) THEN << >>
    ELSE LET score == SkillScore(skills[i], prompt_words)
         IN  (IF score > 0
              THEN << ContextBlock("skill", "skill:" \o skills[i].name, 3000 + score) >>
              ELSE << >>)
             \o SkillBlocks(skills, i + 1, prompt_words)

_get_relevant_skills(classification) ==
    LET prompt_words == PromptWords(classification)
    IN  IF context_db.skills = << >> \/ prompt_words = {} THEN << >>
        ELSE Take(SortByScore(SkillBlocks(context_db.skills, 1, prompt_words), 1, << >>), 3)

\* variant: every gathered block is kept
UniqueBlocksKeepsAll(blocks, i, seen, unique_blocks) == blocks

\* the loop over blocks that keeps the first block of each source_id
RECURSIVE UniqueBlocks(_, _, _, _)
UniqueBlocks(blocks, i, seen, unique_blocks) ==
    IF i > Len(blocks) THEN unique_blocks
    ELSE IF blocks[i].source_id \in seen
    THEN UniqueBlocks(blocks, i + 1, seen, unique_blocks)
    ELSE UniqueBlocks(blocks, i + 1, seen \cup { blocks[i].source_id },
                      Append(unique_blocks, blocks[i]))

\* project_ids: the rows of the slugs, else the row of the workspace project
ProjectIds(classification) ==
    LET BySlugs(project) == \E i \in 1..Len(classification.project_slugs) :
                                classification.project_slugs[i] = project.slug
        ByWorkspace(project) == project.slug = classification.workspace_project[1]
        Ids(rows) == [ i \in 1..Len(rows) |-> rows[i].id ]
    IN  IF classification.project_slugs # << >>
        THEN Ids(SelectSeq(context_db.projects, BySlugs))
        ELSE IF Truthy(classification.workspace_project)
        THEN Ids(Take(SelectSeq(context_db.projects, ByWorkspace), 1))
        ELSE << >>

RECURSIVE ProjectBlocks(_, _)
ProjectBlocks(project_ids, i) ==
    IF i > Len(project_ids) THEN << >>
    ELSE _get_recent_turns(project_ids[i], "", 5)
         \o _get_active_tasks(project_ids[i])
         \o _get_open_commitments(project_ids[i])
         \o ProjectBlocks(project_ids, i + 1)

RECURSIVE ProjectErrors(_, _)
ProjectErrors(project_ids, i) ==
    IF i > Len(project_ids) THEN << >>
    ELSE _get_recent_errors(project_ids[i]) \o ProjectErrors(project_ids, i + 1)

\* the blocks that retrieve gathers, in the order in which it gathers them
Gathered(classification) ==
    LET project_ids == ProjectIds(classification)
        workspace == Truthy(classification.workspace_project)
    IN  ProjectBlocks(project_ids, 1)
        \o (IF workspace
            THEN _get_recent_turns("", classification.workspace_project[1], 5) ELSE << >>)
        \o (IF project_ids = << >> /\ ~workspace THEN _get_recent_turns("", "", 3) ELSE << >>)
        \o (IF classification.person_names # << >>
            THEN _get_person_context(classification.person_names, 1) ELSE << >>)
        \o (IF classification.file_paths # << >>
            THEN _get_turns_by_file(classification.file_paths, 1) ELSE << >>)
        \o (IF classification.query_type = "code" /\ project_ids # << >>
            THEN ProjectErrors(project_ids, 1) ELSE << >>)
        \o (IF project_ids = << >> THEN _get_open_commitments("") ELSE << >>)
        \o _get_active_sprints
        \o _get_relevant_skills(classification)

retrieve(classification) ==
    IF classification.confidence < 1 THEN << >>
    ELSE SortByScore(UniqueBlocks(Gathered(classification), 1, {}, << >>), 1, << >>)

\* the tables of the model
TurnRows ==
    << [ id |-> "t1", project_id |-> "p1", workspace_path |-> "/home/u/apollo",
         errors_encountered |-> TRUE, files_touched |-> {"/home/u/apollo/src/main.py"} ],
       [ id |-> "t2", project_id |-> "", workspace_path |-> "/home/u/Apollo-web",
         errors_encountered |-> FALSE, files_touched |-> {"src/a.py"} ],
       [ id |-> "t3", project_id |-> "p2", workspace_path |-> "/tmp/x",
         errors_encountered |-> TRUE, files_touched |-> {} ],
       [ id |-> "t4", project_id |-> "", workspace_path |-> "/srv",
         errors_encountered |-> FALSE, files_touched |-> {"src/a.py"} ] >>

TaskRows ==
    << [ id |-> "k1", project_id |-> "p1", status |-> "backlog" ],
       [ id |-> "k2", project_id |-> "p1", status |-> "done" ],
       [ id |-> "k3", project_id |-> "p1", status |-> "in_progress" ] >>

CommitmentRows ==
    << [ id |-> "c1", project_id |-> "p1", status |-> "open" ],
       [ id |-> "c2", project_id |-> "", status |-> "open" ],
       [ id |-> "c3", project_id |-> "p1", status |-> "fulfilled" ] >>

ProjectRows == << [ id |-> "p1", slug |-> "apollo" ], [ id |-> "p2", slug |-> "zeus" ] >>

SkillRows ==
    << [ name |-> "apollo-deploy", words |-> {"deploy", "the", "apollo", "task"} ],
       [ name |-> "code-review", words |-> {"review", "code", "alice"} ],
       [ name |-> "apollo-deploy", words |-> {"deploy", "apollo", "staging"} ] >>

ContextDbs ==
    { [ projects |-> projects, turns |-> turns, tasks |-> work[1], commitments |-> work[2],
        people |-> rest[1], sprints |-> rest[2], skills |-> skills ] :
        projects \in { ProjectRows, Tail(ProjectRows) },
        turns \in { << >>, Take(TurnRows, 2), TurnRows },
        work \in { << << >>, << >> >>, << TaskRows, CommitmentRows >> },
        rest \in { << << >>, << >> >>,
                   << << [ id |-> "h1", name |-> "Alice Nguyen" ] >>,
                      << [ id |-> "s1", is_active |-> TRUE ],
                         [ id |-> "s2", is_active |-> FALSE ] >> >> },
        skills \in { << >>, SkillRows } }

\* the classifier has loaded its entities and the database holds its rows
InitRetriever ==
    /\ QueueIdle
    /\ RecorderIdle
    /\ LoopIdle
    /\ HookIdle
    /\ classifier = [ _projects |-> << <<"zeus", "">>, <<"apollo", "Apollo">> >>,
                      _people |-> << "Al", "Alice Nguyen" >> ]
    /\ classified = << >>
    /\ \/ state_dir = [ json |-> None, tmp |-> None ] /\ inodes = << >>
       \/ /\ state_dir = [ json |-> 1, tmp |-> None ]
          /\ inodes = << [ data |-> [ global |-> Text("hermes"),
                                      workspaces |-> [ c \in {"/home/u/apollo"} |-> "apollo" ] ],
                           written |-> "all", by |-> None ] >>
    /\ StateFileIdle
    /\ context_db \in ContextDbs
    /\ retrieved = << >>
    /\ FormatterIdle
    /\ SkillsIdle
    /\ ExtractIdle

\* retriever.retrieve(session, classification)
Retrieve ==
    /\ classified # << >>
    /\ retrieved = << >>
    /\ retrieved' = << retrieve(classified[1].result) >>
    /\ UNCHANGED context_db
    /\ UNCHANGED formatterVars
    /\ UNCHANGED skillVars
    /\ UNCHANGED extractVars
    /\ UNCHANGED hookVars
    /\ UNCHANGED classifierVars
    /\ UNCHANGED queueVars
    /\ UNCHANGED recorderVars
    /\ UNCHANGED loopVars

NextRetriever ==
    \/ \E prompt \in Prompts, cwd \in Cwds : Classify(prompt, cwd)
    \/ Retrieve

SpecRetriever == InitRetriever /\ [][NextRetriever]_vars

----------------------------------------------------------------------------
\* The context formatter

_TYPE_LABELS ==
    [ t \in {"conversation", "task", "email", "commitment", "person", "sprint",
             "file_context", "error", "skill"} |->
        CASE t = "conversation" -> "Conv"
          [] t = "task" -> "Task"
          [] t = "email" -> "Email"
          [] t = "commitment" -> "Commitment"
          [] t = "person" -> "Person"
          [] t = "sprint" -> "Sprint"
          [] t = "file_context" -> "File"
          [] t = "error" -> "Error"
          [] t = "skill" -> "Skill" ]

UpperChar(c) ==
    IF c \in Chars(LowerCase)
    THEN Char(UpperCase, CHOOSE i \in 1..Len(LowerCase) : Char(LowerCase, i) = c)
    ELSE c

\* str.title(): a letter that follows no letter in upper case, the others in lower case
RECURSIVE Title(_, _)
Title(s, after_letter) ==
    IF s = "" THEN ""
    ELSE LET c == Char(s, 1)
             letter == c \in Chars(LowerCase) \cup Chars(UpperCase)
         IN  (IF after_letter THEN LowerChar(c) ELSE UpperChar(c))
             \o Title(SubSeq(s, 2, Len(s)), letter)

_format_single_block(block) ==
    LET label == IF block.source_type \in DOMAIN _TYPE_LABELS
                 THEN _TYPE_LABELS[block.source_type]
                 ELSE Title(block.source_type, FALSE)
    IN  "[" \o label \o "] " \o block.content

\* max(1, len(text) // 4)
_estimate_tokens(text) == IF Len(text) \div 4 < 1 THEN 1 ELSE Len(text) \div 4

Header == "## Focus Context\n\n"

\* str(overflow) for the counts of the model
Decimal(n) == SubSeq(Digits, n + 1, n + 1)

\* the note that follows the blocks, character for character but for the three
\* characters before "run", which are not ASCII in the source and are three
\* dashes here, and the two backquotes, which are apostrophes here
OverflowNote(overflow) ==
    "\n\n(+" \o Decimal(overflow) \o " more --- run 'focus search' for details)"

\* the loop over sorted_blocks: what it leaves in formatted_parts and overflow
RECURSIVE FillBudget(_, _, _, _, _)
FillBudget(sorted_blocks, i, remaining, formatted_parts, overflow) ==
    IF i > Len(sorted_blocks)
    THEN [ formatted_parts |-> formatted_parts, overflow |-> overflow ]
    ELSE LET formatted_block == _format_single_block(sorted_blocks[i])
             tokens == _estimate_tokens(formatted_block)
         IN  IF tokens <= remaining
             THEN FillBudget(sorted_blocks, i + 1, remaining - tokens,
                             Append(formatted_parts, formatted_block), overflow)
             ELSE FillBudget(sorted_blocks, i + 1, remaining, formatted_parts, overflow + 1)

\* "\n".join(parts)
RECURSIVE JoinLines(_, _)
JoinLines(parts, i) ==
    IF i > Len(parts) THEN ""
    ELSE IF i = Len(parts) THEN parts[i]
    ELSE parts[i] \o "\n" \o JoinLines(parts, i + 1)

format_context_blocks(blocks, max_tokens) ==
    IF blocks = << >> THEN ""
    ELSE LET sorted_blocks == SortByScore(blocks, 1, << >>)
             filled == FillBudget(sorted_blocks, 1, max_tokens - _estimate_tokens(Header),
                                  << >>, 0)
             body == Header \o JoinLines(filled.formatted_parts, 1)
         IN  IF filled.formatted_parts = << >> THEN ""
             ELSE IF filled.overflow > 0 THEN body \o OverflowNote(filled.overflow)
             ELSE body

\* the blocks of the model
FormatterBlocks ==
    { [ source_type |-> "task", content |-> "a", relevance_score |-> 3600 ],
      [ source_type |-> "conversation", content |-> Message(27), relevance_score |-> 4200 ],
      [ source_type |-> "note", content |-> Message(73), relevance_score |-> 3000 ],
      [ source_type |-> "sprint", content |-> "", relevance_score |-> 1800 ] }

\* the lists of up to three blocks, no block twice
FormatterLists ==
    UNION { { blocks \in [1..n -> FormatterBlocks] :
                \A i, j \in 1..n : i # j => blocks[i] # blocks[j] } : n \in 0..3 }

Budgets == 0..14 \cup {24, 25, 26, 40, 1500}

Format(blocks, max_tokens) ==
    /\ formatted = << >>
    /\ formatted' = << [ blocks |-> blocks, max_tokens |-> max_tokens,
                         text |-> format_context_blocks(blocks, max_tokens) ] >>
    /\ UNCHANGED hookVars
    /\ UNCHANGED classifierVars
    /\ UNCHANGED retrieverVars
    /\ UNCHANGED skillVars
    /\ UNCHANGED extractVars
    /\ UNCHANGED queueVars
    /\ UNCHANGED recorderVars
    /\ UNCHANGED loopVars

NextFormatter == \E blocks \in FormatterLists, max_tokens \in Budgets : Format(blocks, max_tokens)

SpecFormatter == Init /\ [][NextFormatter]_vars

----------------------------------------------------------------------------
\* Writers of the project-state file: each process of StateWriters makes one
\* call of set_active_project or clear_active_project, step by step, while
\* other processes read the file

StateWriters == {1, 2}

\* set_active_project(slug, workspace) and clear_active_project(workspace);
\* the workspace "" stands for None
StateCalls ==
    [ op : {"set"}, slug : {"apollo", "hermes"}, workspace : {"", "/home/u/apollo"} ]
    \cup [ op : {"clear"}, slug : {""}, workspace : {"", "/home/u/apollo"} ]

\* the state that the call writes, from the state that it read
NewState(state, call) ==
    IF call.op = "set"
    THEN IF call.workspace # ""
         THEN [ state EXCEPT !.workspaces = (call.workspace :> call.slug) @@ state.workspaces ]
         ELSE [ state EXCEPT !.global = Text(call.slug) ]
    ELSE IF call.workspace # ""
         THEN [ state EXCEPT !.workspaces =
                    [ ws \in DOMAIN state.workspaces \ { call.workspace } |->
                        state.workspaces[ws] ] ]
         ELSE [ state EXCEPT !.global = Null ]

InitStateFile ==
    /\ QueueIdle
    /\ RecorderIdle
    /\ LoopIdle
    /\ HookIdle
    /\ RetrieverIdle
    /\ FormatterIdle
    /\ SkillsIdle
    /\ ExtractIdle
    /\ classifier = [ _projects |-> << >>, _people |-> << >> ]
    /\ classified = << >>
    /\ \/ state_dir = [ json |-> None, tmp |-> None ] /\ inodes = << >>
       \/ /\ state_dir = [ json |-> 1, tmp |-> None ]
          /\ inodes = << [ data |-> [ global |-> Text("zeus"), workspaces |-> << >> ],
                           written |-> "all", by |-> None ] >>
    /\ StateFileIdle

\* what a step of a writer or of a reader of the state file leaves alone
StateFileFrame ==
    /\ UNCHANGED <<classifier, classified>>
    /\ UNCHANGED hookVars
    /\ UNCHANGED retrieverVars
    /\ UNCHANGED formatterVars
    /\ UNCHANGED skillVars
    /\ UNCHANGED extractVars
    /\ UNCHANGED queueVars
    /\ UNCHANGED recorderVars
    /\ UNCHANGED loopVars

\* state = _read_state() and the change of the call
WriterReads(w, call) ==
    /\ writer[w].pc = "idle"
    /\ writer' = [ writer EXCEPT ![w] =
                     [ pc |-> "read", call |-> call, state |-> NewState(_read_state, call) ] ]
    /\ UNCHANGED <<state_dir, inodes, state_read>>
    /\ StateFileFrame

\* tmp.write_text(...), its open: the file active_project.tmp is created, or
\* the one that is there is truncated
OpenTmp(w) ==
    IF state_dir.tmp = None
    THEN /\ inodes' = Append(inodes, [ data |-> EmptyState, written |-> "none", by |-> w ])
         /\ state_dir' = [ state_dir EXCEPT !.tmp = Len(inodes) + 1 ]
         /\ writer' = [ writer EXCEPT ![w] = [ pc |-> "opened", call |-> writer[w].call,
                                               state |-> writer[w].state,
                                               fd |-> Len(inodes) + 1 ] ]
    ELSE /\ inodes' = [ inodes EXCEPT ![state_dir.tmp].written = "none",
                                      ![state_dir.tmp].by = w ]
         /\ state_dir' = state_dir
         /\ writer' = [ writer EXCEPT ![w] = [ pc |-> "opened", call |-> writer[w].call,
                                               state |-> writer[w].state,
                                               fd |-> state_dir.tmp ] ]

WriterOpens(w) ==
    /\ writer[w].pc = "read"
    /\ OpenTmp(w)
    /\ UNCHANGED state_read
    /\ StateFileFrame

\* tmp.write_text(...), its write and close: the text goes to the file that was opened
WriterWrites(w) ==
    /\ writer[w].pc = "opened"
    /\ inodes' = [ inodes EXCEPT ![writer[w].fd] =
                     [ data |-> writer[w].state, written |-> "all", by |-> w ] ]
    /\ writer' = [ writer EXCEPT ![w].pc = "written" ]
    /\ UNCHANGED <<state_dir, state_read>>
    /\ StateFileFrame

\* tmp.rename(STATE_FILE): the name active_project.json now stands for the
\* file that active_project.tmp stood for; FileNotFoundError when
\* active_project.tmp is gone, and the call raises after unlink(missing_ok=True)
WriterRenames(w) ==
    /\ writer[w].pc = "written"
    /\ IF state_dir.tmp # None
       THEN /\ state_dir' = [ json |-> state_dir.tmp, tmp |-> None ]
            /\ writer' = [ writer EXCEPT ![w].pc = "done" ]
       ELSE /\ state_dir' = state_dir
            /\ writer' = [ writer EXCEPT ![w].pc = "raised" ]
    /\ UNCHANGED <<inodes, state_read>>
    /\ StateFileFrame

\* another process calls get_active_project(workspace)
ReaderReads(workspace) ==
    /\ state_read' = << [ workspace |-> workspace, value |-> get_active_project(workspace) ] >>
    /\ UNCHANGED <<state_dir, inodes, writer>>
    /\ StateFileFrame

NextStateFile ==
    \/ \E w \in StateWriters, call \in StateCalls : WriterReads(w, call)
    \/ \E w \in StateWriters : WriterOpens(w)
    \/ \E w \in StateWriters : WriterWrites(w)
    \/ \E w \in StateWriters : WriterRenames(w)
    \/ \E workspace \in {"", "/home/u/apollo"} : ReaderReads(workspace)

SpecStateFile == InitStateFile /\ [][NextStateFile]_vars

----------------------------------------------------------------------------
\* Skill extraction (analyzer.py, generator.py, installer.py and
\* process_skill_extract_job of worker.py): the gates that a session passes
\* to become a skill, and the record that keeps track of the skill

\* str.split(): the pieces between runs of whitespace, in order
RECURSIVE SplitWhitespace(_, _)
SplitWhitespace(s, piece) ==
    IF s = "" THEN (IF piece = "" THEN << >> ELSE << piece >>)
    ELSE IF Char(s, 1) \in Whitespace
    THEN (IF piece = "" THEN << >> ELSE << piece >>)
         \o SplitWhitespace(SubSeq(s, 2, Len(s)), "")
    ELSE SplitWhitespace(SubSeq(s, 2, Len(s)), piece \o Char(s, 1))

\* " ".join(parts)
RECURSIVE JoinSpace(_, _)
JoinSpace(parts, i) ==
    IF i > Len(parts) THEN ""
    ELSE IF i = Len(parts) THEN parts[i]
    ELSE parts[i] \o " " \o JoinSpace(parts, i + 1)

\* " ".join(description.lower().split())
NormalizedDescription(description) ==
    JoinSpace(SplitWhitespace(Lower(description), ""), 1)

\* hashlib.md5(text.encode()).hexdigest(): a digest that tells any two texts
\* of the model apart
md5(text) == << "md5", text >>

_compute_description_hash(description) == md5(NormalizedDescription(description))

\* score_session_quality, in units of 1/240: turn_count / 12 up to 0.25,
\* 0.25 * (1 - error_rate) for an error rate below 0.3, file_count / 10 up
\* to 0.2, unique_tools / 8 up to 0.15, and 0.15 for a summary
score_session_quality(turn_count, error_count, files_touched, tools_used, has_summary) ==
    LET Least(a, b) == IF a <= b THEN a ELSE b
        file_count == Cardinality(files_touched)
        unique_tools == Cardinality(tools_used)
        turns == IF turn_count >= 3 THEN Least(20 * turn_count, 60) ELSE 0
        errors == IF turn_count > 0 /\ 10 * error_count < 3 * turn_count
                  THEN (60 * (turn_count - error_count)) \div turn_count
                  ELSE 0
        files == IF file_count >= 2 THEN Least(24 * file_count, 48) ELSE 0
        tools == IF unique_tools >= 2 THEN Least(30 * unique_tools, 36) ELSE 0
        summary == IF has_summary THEN 36 ELSE 0
    IN  Least(turns + errors + files + tools + summary, 240)

\* the set of the members of a list
ListSet(list) == { list[i] : i \in 1..Len(list) }

\* list.extend of each list of lists: the members as a set, and their number
RECURSIVE Extend(_, _)
Extend(lists, i) ==
    IF i > Len(lists) THEN {}
    ELSE ListSet(lists[i]) \cup Extend(lists, i + 1)

RECURSIVE CountAll(_, _)
CountAll(lists, i) ==
    IF i > Len(lists) THEN 0
    ELSE Len(lists[i]) + CountAll(lists, i + 1)

\* the day of an instant, and the start of that day
SecondsPerDay == 86400
today_start(t) == t - (t % SecondsPerDay)

\* _count_todays_auto_skills: the records of source auto created since the
\* start of today, among the rows that the session sees
_count_todays_auto_skills(rows) ==
    Cardinality({ i \in 1..Len(rows) :
                    /\ rows[i].source = "auto"
                    /\ rows[i].created_at >= today_start(now) })

\* _has_similar_skill: an active record has the hash of the description
_has_similar_skill(rows, description) ==
    LET desc_hash == _compute_description_hash(description)
    IN  \E i \in 1..Len(rows) :
            /\ rows[i].skill_content_hash = desc_hash
            /\ rows[i].is_active

\* extract_skill_pattern: the SkillContext of the session
extract_skill_pattern(session_id) ==
    LET turns == TurnsOf(session_id)
        row == agent_sessions[session_id]
    IN  [ workspace_path |-> "",
          files_touched |-> Extend([i \in 1..Len(turns) |-> turns[i].content.files_touched], 1),
          commands_run |-> Extend([i \in 1..Len(turns) |-> turns[i].content.commands_run], 1),
          tools_used |-> Extend([i \in 1..Len(turns) |-> turns[i].tool_names], 1),
          session_summary |-> IF row.session_summary = Null THEN ""
                              ELSE row.session_summary[1] ]

\* no candidate: the gate that stopped the session
NoCandidate(gate) == [ qualifies |-> FALSE, gate |-> gate ]

\* analyze_session_for_skill: the SkillCandidate of the session, or None with
\* the gate that the session did not pass
analyze_session_for_skill(rows, session_id) ==
    LET row == agent_sessions[session_id]
        turn_list == TurnsOf(session_id)
        Each(field(_)) == [ i \in 1..Len(turn_list) |-> field(turn_list[i]) ]
        quality ==
            score_session_quality(
                Len(turn_list),
                CountAll(Each(LAMBDA t : t.content.errors_encountered), 1),
                Extend(Each(LAMBDA t : t.content.files_touched), 1),
                Extend(Each(LAMBDA t : t.tool_names), 1),
                Truthy(row.session_summary))
    IN  IF ~skill_settings.auto_generate
        THEN NoCandidate("auto_generate")
        ELSE IF ~row.is_processed \/ ~Truthy(row.session_summary)
        THEN NoCandidate("processed")
        ELSE IF _count_todays_auto_skills(rows) >= skill_settings.max_auto_skills_per_day
        THEN NoCandidate("daily_limit")
        ELSE IF quality < skill_settings.min_quality_score
        THEN NoCandidate("quality")
        ELSE IF _has_similar_skill(rows, row.session_summary[1])
        THEN NoCandidate("duplicate")
        ELSE [ qualifies |-> TRUE,
               session_id |-> session_id,
               quality_score |-> quality,
               description |-> row.session_summary[1],
               context |-> extract_skill_pattern(session_id) ]

\* re.sub(r"[^a-z0-9\-]", "-", text)
RECURSIVE ReplaceOthers(_)
ReplaceOthers(text) ==
    IF text = "" THEN ""
    ELSE (IF Char(text, 1) \in Chars(LowerCase) \cup Chars(Digits) \cup {"-"}
          THEN Char(text, 1) ELSE "-")
         \o ReplaceOthers(SubSeq(text, 2, Len(text)))

\* re.sub(r"-{2,}", "-", text)
RECURSIVE CollapseHyphens(_)
CollapseHyphens(text) ==
    IF Len(text) < 2 THEN text
    ELSE IF Char(text, 1) = "-" /\ Char(text, 2) = "-"
    THEN CollapseHyphens(SubSeq(text, 2, Len(text)))
    ELSE Char(text, 1) \o CollapseHyphens(SubSeq(text, 2, Len(text)))

\* str.rstrip("-")
RECURSIVE RStripHyphens(_)
RStripHyphens(text) ==
    IF text # "" /\ Char(text, Len(text)) = "-"
    THEN RStripHyphens(SubSeq(text, 1, Len(text) - 1))
    ELSE text

\* str.strip("-")
RECURSIVE StripHyphens(_)
StripHyphens(text) ==
    IF text # "" /\ Char(text, 1) = "-"
    THEN StripHyphens(SubSeq(text, 2, Len(text)))
    ELSE RStripHyphens(text)

\* validate_skill_name: the normalized name; "" stands for ValueError
validate_skill_name(name) ==
    LET normalized == StripHyphens(CollapseHyphens(ReplaceOthers(Strip(Lower(name)))))
    IN  IF Len(normalized) > 64
        THEN RStripHyphens(SubSeq(normalized, 1, 64))
        ELSE normalized

\* generate_skill_md returns None
NoSkill == [ generated |-> FALSE ]

\* a reply of the model that cannot be used: no API key, an error of the
\* API, or a text that is not JSON
NoReply == [ parsed |-> FALSE ]

\* generate_skill_md(description, context, source): the GeneratedSkill made
\* of the reply, whose description stands in for the one that the reply
\* lacks, cut to 200 characters; None when the reply cannot be used, when
\* its name cannot be normalized (ValueError, caught) or its body is empty
generate_skill_md(description, reply, source) ==
    IF ~reply.parsed
    THEN NoSkill
    ELSE LET name == validate_skill_name(reply.name)
    IN  IF name = ""
    THEN NoSkill
    ELSE IF reply.body = ""
    THEN NoSkill
    ELSE [ generated |-> TRUE,
           name |-> name,
           description |-> Prefix(IF reply.description = Null THEN description
                                  ELSE reply.description[1], 200),
           body |-> reply.body,
           source |-> source ]

\* validate_skill_content of the text that render_skill_md makes of a skill
\* whose description has one line: the name has passed validate_skill_name,
\* so what can be missing is the description or the body
validate_skill_content(skill) ==
    (IF Strip(skill.description) = "" THEN {"description"} ELSE {})
    \cup (IF Strip(skill.body) = "" THEN {"body"} ELSE {})

\* install_skill(name, content): what the call raises, "" when it installs
install_skill(skill, disk) ==
    IF validate_skill_content(skill) # {} THEN "ValueError"
    ELSE IF skill.name \in skills_dir THEN "FileExistsError"
    ELSE IF disk = "full" THEN "OSError"
    ELSE ""

\* the GeneratedSkillRecord that the handler adds for the skill
GeneratedSkillRecord(skill, candidate, cc_session_id) ==
    [ name |-> skill.name,
      description |-> skill.description,
      source |-> "auto",
      source_session_id |-> cc_session_id,
      scope |-> "personal",
      quality_score |-> candidate.quality_score,
      skill_content_hash |-> md5(NormalizedDescription(skill.description)),
      is_active |-> TRUE,
      created_at |-> now ]

\* a stored turn with the columns that skill extraction reads
SkillTurn(session_id, turn_number, tool_names, files_touched, errors_encountered) ==
    [ session_id |-> session_id, turn_number |-> turn_number,
      turn_title |-> Null, user_message |-> "",
      tool_names |-> tool_names,
      content |-> [ files_touched |-> files_touched,
                    commands_run |-> << "pytest" >>,
                    errors_encountered |-> errors_encountered ] ]

\* three turns that use two tools on two files without an error
GoodTurns(session_id) ==
    [ n \in 1..3 |-> SkillTurn(session_id, n, << "Read", "Edit" >>,
                               << "src/a.py", "src/b.py" >>, << >>) ]

\* one turn that uses no tool and ends in an error
PoorTurns(session_id) ==
    << SkillTurn(session_id, 1, << >>, << >>, << "Traceback" >>) >>

\* the session row as process_session_summary_job is written to leave it
SummarizedSession(turn_count, summary) ==
    [ AgentSession(turn_count) EXCEPT !.session_title = Text(summary),
                                      !.session_summary = Text(summary),
                                      !.is_processed = TRUE ]

\* the sessions whose skill_extract jobs the model runs
SkillSessions == {"s", "t", "u", "v"}

\* the databases of the model.  In the first every session qualifies, and
\* the summaries of s and t differ in case and spacing only; in the second t
\* is of low quality, u has no summary yet and the row of v is gone
SkillDbs ==
    { [ agent_sessions |->
            [ id \in SkillSessions |->
                SummarizedSession(3, CASE id = "s" -> "Fix  Bug"
                                       [] id = "t" -> "fix bug"
                                       [] id = "u" -> "Add tests"
                                       [] id = "v" -> "Deploy app") ],
        agent_turns |->
            GoodTurns("s") \o GoodTurns("t") \o GoodTurns("u") \o GoodTurns("v") ],
      [ agent_sessions |->
            [ id \in {"s", "t", "u"} |->
                CASE id = "s" -> SummarizedSession(3, "Fix  Bug")
                  [] id = "t" -> SummarizedSession(1, "Add tests")
                  [] id = "u" -> AgentSession(3) ],
        agent_turns |-> GoodTurns("s") \o PoorTurns("t") \o GoodTurns("u") ] }

\* the skill_extract jobs of the sessions, enqueued one second after the
\* other as the enqueue_job call of process_session_summary_job states them
\* (worker.py, 425-432)
SkillOrder == << "s", "t", "u", "v" >>

SkillJobs ==
    [ id \in 1..Len(SkillOrder) |->
        [ NewJob("skill_extract", [session_id |-> SkillOrder[id]],
                 <<"skill_extract", SkillOrder[id]>>, 30, DefaultMaxAttempts)
          EXCEPT !.created_at = id - 1 ] ]

InitSkills ==
    /\ now = Len(SkillOrder)
    /\ focus_jobs = SkillJobs
    /\ pending = [p \in AllProcs |-> NoWrites]
    /\ pc = [p \in AllProcs |-> IF p \in Hooks THEN "idle" ELSE "expire"]
    /\ job = [p \in AllProcs |-> None]
    /\ lease = [p \in AllProcs |-> NULL]
    /\ LoopIdle
    /\ \E db \in SkillDbs :
        /\ agent_sessions = db.agent_sessions
        /\ agent_turns = db.agent_turns
    /\ path_exists = TRUE
    /\ transcript = << >>
    /\ result = [turns_recorded |-> 0, turns_skipped |-> 0, error |-> ""]
    /\ handler_tx = [w \in Procs |-> NoTx]
    /\ HookIdle
    /\ ClassifierIdle
    /\ RetrieverIdle
    /\ FormatterIdle
    /\ skill_settings \in { [ DefaultSkillSettings EXCEPT !.auto_generate = b ] :
                              b \in BOOLEAN }
    /\ generated_skills = << >>
    /\ skills_dir = {}
    /\ skill_run = [ w \in Procs |-> NoSkillRun ]
    /\ ExtractIdle

\* the replies of the model to the prompt that is built for the session: none
\* that can be used, a skill named after the session without and with a
\* description of the model's own, a skill with the name that every session
\* can get, a skill with an empty description, a name without a letter or
\* digit, and an empty body
SkillReplies(cc_session_id) ==
    LET Reply(name, description, body) ==
            [ parsed |-> TRUE, name |-> name, description |-> description,
              body |-> body ]
    IN  { NoReply,
          Reply("Skill " \o cc_session_id, Null, "1. Run pytest"),
          Reply("Skill " \o cc_session_id, Text("Fixes a bug"), "1. Run pytest"),
          Reply("fix-bug", Text("Fixes a bug"), "1. Run pytest"),
          Reply("skill-" \o cc_session_id, Text(" "), "1. Run pytest"),
          Reply("!!", Text("Fixes a bug"), "1. Run pytest"),
          Reply("skill-" \o cc_session_id, Text("Fixes a bug"), "") }

\* the handler has come to an end: how its last run ended, which for an
\* error of install_skill is the name of the error
SkillRunEnded(outcome) ==
    [ stage |-> "ended", session_id |-> "", outcome |-> outcome ]

\* process_skill_extract_job, up to the candidate: the session is loaded and
\* analyzed in the handler's own database session, which sees the committed
\* records.  Without a session row or a candidate the handler returns.
SkillExtractAnalyzes(w) ==
    /\ Dispatching(w, {"skill_extract"})
    /\ skill_run[w].stage # "generate"
    /\ LET cc_session_id == Held(w).payload.session_id
       IN  IF cc_session_id \notin DOMAIN agent_sessions
           THEN /\ skill_run' = [skill_run EXCEPT
                                   ![w] = SkillRunEnded("no_session")]
                /\ pc' = [pc EXCEPT ![w] = "complete"]
           ELSE LET candidate == analyze_session_for_skill(generated_skills, cc_session_id)
                IN  IF ~candidate.qualifies
                    THEN /\ skill_run' = [skill_run EXCEPT
                                   ![w] = SkillRunEnded("not_qualified")]
                         /\ pc' = [pc EXCEPT ![w] = "complete"]
                    ELSE /\ skill_run' = [skill_run EXCEPT
                                   ![w] = [ stage |-> "generate",
                                            session_id |-> cc_session_id,
                                            candidate |-> candidate ]]
                         /\ UNCHANGED pc
    /\ UNCHANGED <<skill_settings, generated_skills, skills_dir>>
    /\ UNCHANGED <<now, focus_jobs, pending, job, lease>>
    /\ UNCHANGED recorderVars
    /\ UNCHANGED loopVars
    /\ UNCHANGED <<hookVars, classifierVars, retrieverVars, formatterVars, extractVars>>

\* variant: a handler that catches no error of install_skill
SkippedErrorsNone == {}

\* except (FileExistsError, ValueError): the errors of install_skill after
\* which the handler returns
SkippedErrors == {"FileExistsError", "ValueError"}

\* the rest of process_skill_extract_job: the skill is generated from the
\* reply and installed, and its record is added and committed as the
\* handler's session scope ends.  Without a skill the handler returns; an
\* error of install_skill ends it, and leaves it unless it is caught.
SkillExtractGenerates(w, reply, disk) ==
    /\ Dispatching(w, {"skill_extract"})
    /\ skill_run[w].stage = "generate"
    /\ LET cc_session_id == skill_run[w].session_id
           candidate == skill_run[w].candidate
           skill == generate_skill_md(candidate.description, reply, "auto")
           raised == install_skill(skill, disk)
           Ends(outcome) ==
               skill_run' = [skill_run EXCEPT ![w] = SkillRunEnded(outcome)]
       IN  IF ~skill.generated
           THEN /\ Ends("no_skill")
                /\ pc' = [pc EXCEPT ![w] = "complete"]
                /\ UNCHANGED <<generated_skills, skills_dir>>
           ELSE IF raised # ""
           THEN /\ Ends(raised)
                /\ pc' = [pc EXCEPT ![w] = IF raised \in SkippedErrors
                                           THEN "complete" ELSE "fail"]
                /\ UNCHANGED <<generated_skills, skills_dir>>
           ELSE /\ Ends("recorded")
                /\ pc' = [pc EXCEPT ![w] = "complete"]
                /\ skills_dir' = skills_dir \cup { skill.name }
                /\ generated_skills' =
                       Append(generated_skills,
                              GeneratedSkillRecord(skill, candidate, cc_session_id))
    /\ UNCHANGED skill_settings
    /\ UNCHANGED <<now, focus_jobs, pending, job, lease>>
    /\ UNCHANGED recorderVars
    /\ UNCHANGED loopVars
    /\ UNCHANGED <<hookVars, classifierVars, retrieverVars, formatterVars, extractVars>>

\* the states of the disk when install_skill writes
Disks == {"ok", "full"}

NextSkills ==
    \/ \E w \in Procs : WorkerExpire(w)
    \/ \E w \in Procs : WorkerClaim(w)
    \/ \E w \in Procs : SkillExtractAnalyzes(w)
    \/ \E w \in Procs : \E reply \in SkillReplies(skill_run[w].session_id) :
            \E disk \in Disks : SkillExtractGenerates(w, reply, disk)
    \/ \E w \in Procs : WorkerComplete(w)
    \/ \E w \in Procs : WorkerFail(w)

SpecSkills == InitSkills /\ [][NextSkills]_vars

----------------------------------------------------------------------------
\* The queue is drained: the worker loops run on, every handler comes to an
\* end, and time passes when the jobs that are left wait for a retry deadline

\* the steps of the loop of worker w
DrainStep(w) ==
    \/ WorkerExpire(w)
    \/ WorkerClaim(w)
    \/ HandlerReturns(w)
    \/ HandlerRaises(w)
    \/ WorkerComplete(w)
    \/ WorkerFail(w)

NextDrain ==
    \/ \E h \in Hooks : \E in \in EnqueueInputs : HookEnqueue(h, in)
    \/ \E w \in Procs : WorkerExpire(w)
    \/ \E w \in Procs : WorkerClaim(w)
    \/ \E w \in Procs : HandlerReturns(w)
    \/ \E w \in Procs : HandlerRaises(w)
    \/ \E w \in Procs : WorkerComplete(w)
    \/ \E w \in Procs : WorkerFail(w)
    \/ Wait

\* every worker loop goes on (while _running, with the sleep of poll_interval
\* between two empty polls) and the clock goes on
SpecDrain ==
    /\ InitWorker
    /\ [][NextDrain]_vars
    /\ \A w \in Procs : WF_vars(DrainStep(w))
    /\ WF_vars(Wait)

----------------------------------------------------------------------------
\* The turn-level handlers of a turn (worker.py and artifact_extractor.py):
\* turn_summary, entity_extract and artifact_extract.  Each works in a session
\* of its own (async with get_session()), which commits when the handler
\* returns, while the session that holds the worker's claim stays open.

\* a record of the transcript whose message content is a list of blocks
BlockLine(role, text, content) ==
    [ type |-> role, meta |-> FALSE, role |-> role, text |-> text, content |-> content ]

ToolUse(name, input) == [ type |-> "tool_use", name |-> name, input |-> input ]

ToolResult(is_error, content) ==
    [ type |-> "tool_result", is_error |-> is_error, content |-> content ]

\* tool_input.get(key, "")
InputGet(tool_input, key) == IF key \in DOMAIN tool_input THEN tool_input[key] ELSE ""

\* Artifact(artifact_type, artifact_value, artifact_metadata)
Artifact(artifact_type, artifact_value, tool) ==
    [ artifact_type |-> artifact_type, artifact_value |-> artifact_value,
      artifact_metadata |-> tool ]

\* TurnArtifacts()
NoArtifacts ==
    [ artifacts |-> << >>, files_read |-> << >>, files_written |-> << >>,
      files_edited |-> << >>, commands_run |-> << >>, errors_encountered |-> << >>,
      tool_call_count |-> 0 ]

_process_tool_use(block, found) ==
    LET tool_name == block.name
        tool_input == block.input
        counted == [ found EXCEPT !.tool_call_count = @ + 1 ]
    IN  IF tool_name = "Read"
        THEN LET path == InputGet(tool_input, "file_path")
             IN  IF path # ""
                 THEN [ counted EXCEPT !.files_read = Append(@, path),
                                       !.artifacts = Append(@, Artifact("file_read", path, tool_name)) ]
                 ELSE counted
        ELSE IF tool_name \in {"Glob", "Grep"}
        THEN LET pattern == InputGet(tool_input, "pattern")
                 path == InputGet(tool_input, "path")
             IN  [ counted EXCEPT !.artifacts =
                       Append(@, Artifact("file_read", IF pattern # "" THEN pattern ELSE path,
                                          tool_name)) ]
        ELSE IF tool_name = "Write"
        THEN LET path == InputGet(tool_input, "file_path")
             IN  IF path # ""
                 THEN [ counted EXCEPT !.files_written = Append(@, path),
                                       !.artifacts = Append(@, Artifact("file_write", path, tool_name)) ]
                 ELSE counted
        ELSE IF tool_name \in {"Edit", "NotebookEdit"}
        THEN LET path == IF InputGet(tool_input, "file_path") # ""
                         THEN InputGet(tool_input, "file_path")
                         ELSE InputGet(tool_input, "notebook_path")
             IN  IF path # ""
                 THEN [ counted EXCEPT !.files_edited = Append(@, path),
                                       !.artifacts = Append(@, Artifact("file_edit", path, tool_name)) ]
                 ELSE counted
        ELSE IF tool_name = "Bash"
        THEN LET command == InputGet(tool_input, "command")
             IN  IF command # ""
                 THEN [ counted EXCEPT !.commands_run = Append(@, command),
                                       !.artifacts =
                                           Append(@, Artifact("command", Prefix(command, 500),
                                                              tool_name)) ]
                 ELSE counted
        ELSE IF tool_name = "Task"
        THEN [ counted EXCEPT !.artifacts =
                   Append(@, Artifact("tool_call",
                                      "Task: " \o Prefix(InputGet(tool_input, "prompt"), 200),
                                      tool_name)) ]
        ELSE [ counted EXCEPT !.artifacts = Append(@, Artifact("tool_call", tool_name, tool_name)) ]

\* an error found with a text adds the text to the errors
_process_tool_result(block, found) ==
    IF ~block.is_error \/ Strip(block.content) = ""
    THEN found
    ELSE [ found EXCEPT
             !.errors_encountered = Append(@, Prefix(Strip(block.content), 500)),
             !.artifacts = Append(@, Artifact("error", Prefix(Strip(block.content), 500), "")) ]

\* for block in content
RECURSIVE ProcessBlocks(_, _, _)
ProcessBlocks(content, i, found) ==
    IF i > Len(content) THEN found
    ELSE IF content[i].type = "tool_use"
    THEN ProcessBlocks(content, i + 1, _process_tool_use(content[i], found))
    ELSE IF content[i].type = "tool_result"
    THEN ProcessBlocks(content, i + 1, _process_tool_result(content[i], found))
    ELSE ProcessBlocks(content, i + 1, found)

\* for line in raw_jsonl.split("\n"): a record whose content is not a list of
\* blocks is passed over
RECURSIVE ExtractLines(_, _, _)
ExtractLines(raw_jsonl, i, found) ==
    IF i > Len(raw_jsonl) THEN found
    ELSE IF "content" \in DOMAIN raw_jsonl[i]
    THEN ExtractLines(raw_jsonl, i + 1, ProcessBlocks(raw_jsonl[i].content, 1, found))
    ELSE ExtractLines(raw_jsonl, i + 1, found)

extract_artifacts(raw_jsonl) == ExtractLines(raw_jsonl, 1, NoArtifacts)

\* TurnArtifacts.files_touched: the files read, written and edited, each once
RECURSIVE UniqueInOrder(_, _, _)
UniqueInOrder(files, i, seen) ==
    IF i > Len(files) THEN seen
    ELSE UniqueInOrder(files, i + 1, AppendNew(seen, files[i]))

files_touched(artifacts) ==
    UniqueInOrder(artifacts.files_read \o artifacts.files_written \o artifacts.files_edited,
                  1, << >>)

\* the rows of agent_turn_content as record_session inserts them
NullSummary ==
    [ files_touched |-> Null, commands_run |-> Null, errors_encountered |-> Null,
      tool_call_count |-> Null ]

ContentSummary(turn_id) ==
    IF turn_id \in DOMAIN content_summary THEN content_summary[turn_id] ELSE NullSummary

\* a handler that writes nothing
NoExtractWrites ==
    [ open |-> TRUE, turn_id |-> 0, turn_columns |-> << >>, content_columns |-> << >>,
      entities |-> << >>, artifacts |-> << >> ]

\* the columns of a list that hold a value
SetColumns(columns) ==
    [ c \in { d \in DOMAIN columns : columns[d] # << >> } |-> columns[c] ]

\* process_artifact_extract_job up to its flush: one row for each artifact,
\* and the summary columns of the content row that have a value
process_artifact_extract_job(turn_id) ==
    IF turn_id \notin 1..Len(agent_turns) THEN NoExtractWrites
    ELSE IF agent_turns[turn_id].raw_jsonl = << >> THEN NoExtractWrites
    ELSE LET artifacts == extract_artifacts(agent_turns[turn_id].raw_jsonl)
         IN  [ NoExtractWrites EXCEPT
                 !.turn_id = turn_id,
                 !.artifacts =
                     [ i \in 1..Len(artifacts.artifacts) |->
                         [ turn_id |-> turn_id,
                           artifact_type |-> artifacts.artifacts[i].artifact_type,
                           artifact_value |-> artifacts.artifacts[i].artifact_value,
                           artifact_metadata |-> artifacts.artifacts[i].artifact_metadata ] ],
                 !.content_columns =
                     ("tool_call_count" :> artifacts.tool_call_count) @@
                     SetColumns([ files_touched |-> files_touched(artifacts),
                                  commands_run |-> artifacts.commands_run,
                                  errors_encountered |-> artifacts.errors_encountered ]) ]

\* AgentTurnEntity(turn_id, entity_type, entity_id, entity_name, confidence);
\* the confidence is counted in tenths
AgentTurnEntity(turn_id, entity_type, entity, confidence) ==
    [ turn_id |-> turn_id, entity_type |-> entity_type, entity_id |-> entity.id,
      entity_name |-> entity.name, confidence |-> confidence ]

\* for project in projects: the slug is a word of the text, or else the name is
RECURSIVE ProjectEntities(_, _, _, _)
ProjectEntities(projects, i, turn_id, full_text) ==
    IF i > Len(projects) THEN << >>
    ELSE IF ReSearch(TRUE, Lower(projects[i].slug), TRUE, full_text)
    THEN << AgentTurnEntity(turn_id, "project", projects[i], 9) >>
         \o ProjectEntities(projects, i + 1, turn_id, full_text)
    ELSE IF /\ projects[i].name # ""
            /\ ReSearch(TRUE, Lower(projects[i].name), TRUE, full_text)
    THEN << AgentTurnEntity(turn_id, "project", projects[i], 7) >>
         \o ProjectEntities(projects, i + 1, turn_id, full_text)
    ELSE ProjectEntities(projects, i + 1, turn_id, full_text)

\* for person in people: a name of more than two characters that is a word of
\* the text
RECURSIVE PersonEntities(_, _, _, _)
PersonEntities(people, i, turn_id, full_text) ==
    IF i > Len(people) THEN << >>
    ELSE IF /\ Len(people[i].name) > 2
            /\ ReSearch(TRUE, Lower(people[i].name), TRUE, full_text)
    THEN << AgentTurnEntity(turn_id, "person", people[i], 8) >>
         \o PersonEntities(people, i + 1, turn_id, full_text)
    ELSE PersonEntities(people, i + 1, turn_id, full_text)

\* variant: the text that is searched is the summary of the turn
EntityTextOfSummary(turn) ==
    IF Truthy(turn.assistant_summary) THEN Lower(turn.assistant_summary[1]) ELSE ""

\* full_text: the user message and the assistant text of the content row,
\* joined by a newline, in lower case
EntityText(turn) ==
    LET assistant_text == JoinLines(turn.assistant_text, 1)
        text_parts == (IF turn.user_message # "" THEN << turn.user_message >> ELSE << >>)
                      \o (IF assistant_text # "" THEN << assistant_text >> ELSE << >>)
    IN  Lower(JoinLines(text_parts, 1))

\* process_entity_extract_job up to its flush: the rows it adds
process_entity_extract_job(turn_id) ==
    IF turn_id \notin 1..Len(agent_turns) THEN NoExtractWrites
    ELSE LET full_text == EntityText(agent_turns[turn_id])
             projects == SelectSeq(context_db.projects, LAMBDA p : p.status = "active")
         IN  IF full_text = "" THEN NoExtractWrites
             ELSE [ NoExtractWrites EXCEPT
                      !.turn_id = turn_id,
                      !.entities = ProjectEntities(projects, 1, turn_id, full_text)
                                   \o PersonEntities(context_db.people, 1, turn_id, full_text) ]

\* process_turn_summary_job up to its flush: the columns of the turn it sets
TurnSummaryWrites(turn_id, llm) ==
    IF turn_id \notin 1..Len(agent_turns) THEN NoExtractWrites
    ELSE IF Truthy(agent_turns[turn_id].assistant_summary) THEN NoExtractWrites
    ELSE LET turn == TurnSummaryUpdate(agent_turns[turn_id], llm)
         IN  [ NoExtractWrites EXCEPT
                 !.turn_id = turn_id,
                 !.turn_columns = [ turn_title |-> turn.turn_title,
                                    assistant_summary |-> turn.assistant_summary ] ]

\* what a step of a turn-level handler leaves alone
ExtractFrame ==
    /\ UNCHANGED <<now, focus_jobs, pending, job, lease>>
    /\ UNCHANGED <<path_exists, transcript, agent_sessions, result, handler_tx>>
    /\ UNCHANGED loopVars
    /\ UNCHANGED hookVars
    /\ UNCHANGED classifierVars
    /\ UNCHANGED retrieverVars
    /\ UNCHANGED formatterVars
    /\ UNCHANGED skillVars

\* the handler has read its rows and has made its changes in its session
ExtractBegins(w, writes) ==
    /\ ~extract_tx[w].open
    /\ extract_tx' = [ extract_tx EXCEPT ![w] = writes ]
    /\ UNCHANGED <<pc, agent_turns, content_summary, agent_turn_entities, agent_turn_artifacts>>
    /\ ExtractFrame

TurnSummaryBegins(w, llm) ==
    /\ Dispatching(w, {"turn_summary"})
    /\ ExtractBegins(w, TurnSummaryWrites(Held(w).payload.turn_id, llm))

EntityExtractBegins(w) ==
    /\ Dispatching(w, {"entity_extract"})
    /\ ExtractBegins(w, process_entity_extract_job(Held(w).payload.turn_id))

ArtifactExtractBegins(w) ==
    /\ Dispatching(w, {"artifact_extract"})
    /\ ExtractBegins(w, process_artifact_extract_job(Held(w).payload.turn_id))

\* UPDATE ... SET of the columns that the handler has set
SetRow(row, columns) ==
    [ c \in DOMAIN row |-> IF c \in DOMAIN columns THEN columns[c] ELSE row[c] ]

\* the handler returns: flush and commit of its session.  The UPDATE of a row
\* names the columns that were set, the INSERTs add the new rows.
ExtractCommits(w) ==
    /\ pc[w] = "dispatch"
    /\ extract_tx[w].open
    /\ LET tx == extract_tx[w]
       IN  /\ agent_turns' =
                  IF DOMAIN tx.turn_columns = {} THEN agent_turns
                  ELSE [ agent_turns EXCEPT ![tx.turn_id] = SetRow(@, tx.turn_columns) ]
           /\ content_summary' =
                  IF DOMAIN tx.content_columns = {} THEN content_summary
                  ELSE (tx.turn_id :> SetRow(ContentSummary(tx.turn_id), tx.content_columns))
                       @@ content_summary
           /\ agent_turn_entities' = agent_turn_entities \o tx.entities
           /\ agent_turn_artifacts' = agent_turn_artifacts \o tx.artifacts
    /\ extract_tx' = [ extract_tx EXCEPT ![w] = NoExtractTx ]
    /\ pc' = [ pc EXCEPT ![w] = "complete" ]
    /\ ExtractFrame

\* the turns of the model: a short prompt, which the summary handler copies,
\* and a prompt of more than fifty characters, which it sends to the
\* summarizer; the assistant has answered with a text and three tool calls
ExtractPrompts ==
    { "ask Alice Nguyen about Apollo",
      "ask Alice Nguyen about Apollo and about the launch window of the rocket" }

ExtractTurn(prompt) ==
    AgentTurn(SessionId,
              _finalize_turn(
                  [ user_message |-> prompt,
                    assistant_texts |-> << "zeus is fine" >>,
                    raw_lines |->
                        << Line("user", FALSE, "user", prompt),
                           BlockLine("assistant", "zeus is fine",
                               << ToolUse("Read", [ file_path |-> "a.py" ]),
                                  ToolUse("Bash", [ command |-> "ls" ]),
                                  ToolUse("Edit", [ file_path |-> "a.py", old_string |-> "x" ]),
                                  ToolUse("WebFetch", [ url |-> "u" ]) >>) >> ],
                  0))

\* the projects and the people that the entity handler loads
ExtractDb ==
    [ projects |-> << [ id |-> "p1", slug |-> "apollo", name |-> "Apollo Program",
                        status |-> "active" ],
                      [ id |-> "p2", slug |-> "zs", name |-> "Zeus", status |-> "active" ],
                      [ id |-> "p3", slug |-> "ask", name |-> "", status |-> "archived" ] >>,
      turns |-> << >>, tasks |-> << >>, commitments |-> << >>,
      people |-> << [ id |-> "h1", name |-> "Alice Nguyen" ], [ id |-> "h2", name |-> "is" ] >>,
      sprints |-> << >>, skills |-> << >> ]

\* the jobs that process_session_job has enqueued for the turn it recorded
ExtractJobs(turn) ==
    LET ins == ChildInputs(<< turn >>, SessionId, 1)
    IN  [ id \in 1..Len(ins) |-> NewJob(ins[id][1], ins[id][2], ins[id][3], ins[id][4], ins[id][5]) ]

\* a session_process handler has recorded one turn and has committed its jobs
InitExtract ==
    /\ now = 0
    /\ \E prompt \in ExtractPrompts :
        /\ agent_turns = << ExtractTurn(prompt) >>
        /\ focus_jobs = ExtractJobs(ExtractTurn(prompt))
        /\ transcript = << Line("user", FALSE, "user", prompt) >>
    /\ pending = [p \in AllProcs |-> NoWrites]
    /\ pc = [p \in AllProcs |-> IF p \in Hooks THEN "idle" ELSE "expire"]
    /\ job = [p \in AllProcs |-> None]
    /\ lease = [p \in AllProcs |-> NULL]
    /\ LoopIdle
    /\ path_exists = TRUE
    /\ agent_sessions = (SessionId :> AgentSession(1))
    /\ result = [turns_recorded |-> 1, turns_skipped |-> 0, error |-> ""]
    /\ handler_tx = [w \in Procs |-> NoTx]
    /\ HookIdle
    /\ ClassifierIdle
    /\ context_db = ExtractDb
    /\ retrieved = << >>
    /\ FormatterIdle
    /\ SkillsIdle
    /\ ExtractIdle

\* two worker processes run the jobs of the turn; a worker process may be
\* killed at any point of an iteration
NextExtract ==
    \/ \E w \in Procs : WorkerExpire(w)
    \/ \E w \in Procs : WorkerClaim(w)
    \/ \E w \in Procs : \E llm \in LlmOutcomes : TurnSummaryBegins(w, llm)
    \/ \E w \in Procs : EntityExtractBegins(w)
    \/ \E w \in Procs : ArtifactExtractBegins(w)
    \/ \E w \in Procs : ExtractCommits(w)
    \/ \E w \in Procs : SessionSummaryRuns(w)
    \/ \E w \in Procs : WorkerComplete(w)
    \/ \E w \in Procs : WorkerFail(w)
    \/ \E w \in Procs : WorkerDies(w)

SpecExtract == InitExtract /\ [][NextExtract]_vars

----------------------------------------------------------------------------
\* Claims

\* the rows, committed or written by an open transaction, that hold key K
VersionIds(K) ==
    { id \in AllIds : \E p \in AllProcs : id \in DOMAIN View(p) /\ View(p)[id].dedupe_key = K }

Keys == { in[3] : in \in EnqueueInputs } \ {NoKey}

\* C1: for every non-empty dedupe key K, under any interleaving of enqueue calls,
\* at most one row with key K exists, at most one enqueue call with K holds a job
\* that it was returned, and an enqueue with K that finds a row with K returns
\* nil and inserts nothing
C1_DedupeKey ==
    \A K \in Keys :
        /\ Cardinality(VersionIds(K)) <= 1
        /\ Cardinality({ h \in Hooks : job[h] # None /\ job[h] \in VersionIds(K) }) <= 1
        /\ \A h \in Hooks : \A in \in EnqueueInputs :
            (/\ in[3] = K
             /\ pc[h] = "idle"
             /\ enqueue_ready(h, K)
             /\ VersionIds(K) # {})
            => /\ enqueue_job(h, in[1], in[2], in[3], in[4], in[5]).ret = None
               /\ enqueue_job(h, in[1], in[2], in[3], in[4], in[5]).writes = NoWrites

\* one enqueue with key "a" was returned the job and committed, and a later
\* enqueue with "a" by the other process was returned nil and wrote nothing
C1_Witness ==
    \E h \in Hooks : \E g \in Hooks \ {h} :
        /\ pc[h] = "commit" /\ job[h] = None /\ pending[h] = NoWrites
        /\ job[g] # None /\ job[g] \in DOMAIN focus_jobs
        /\ focus_jobs[job[g]].dedupe_key = <<"a">>

\* the rows a claim_job(kinds) of p may take, as the claim describes them
Candidates(p, kinds) ==
    { id \in DOMAIN focus_jobs :
        /\ focus_jobs[id].status = "queued" \/ focus_jobs[id].status = "retry"
        /\ focus_jobs[id].locked_until = NULL \/ focus_jobs[id].locked_until < now
        /\ kinds = {} \/ focus_jobs[id].kind \in kinds
        /\ \A q \in AllProcs \ {p} : id \notin DOMAIN pending[q] }

\* C9: claim(kinds) returns a job among those in status queued or retry, with
\* locked_until null or in the past, of an allowed kind (any kind when no kinds
\* are given) and not locked by another transaction, that has the lowest
\* priority and among those the earliest created_at; it sets the job to
\* processing, locked_until to now + lease and attempts to attempts + 1, and it
\* returns nil exactly when there is no such job
C9_ClaimSelects ==
    \A p \in Procs : \A kinds \in ClaimInputs : \A r \in claim_job(p, kinds) :
        /\ r.ret = None <=> Candidates(p, kinds) = {}
        /\ r.ret = None => r.writes = NoWrites
        /\ r.ret # None =>
            /\ r.ret \in Candidates(p, kinds)
            /\ \A o \in Candidates(p, kinds) :
                \/ focus_jobs[o].priority > focus_jobs[r.ret].priority
                \/ /\ focus_jobs[o].priority = focus_jobs[r.ret].priority
                   /\ focus_jobs[o].created_at >= focus_jobs[r.ret].created_at
            /\ DOMAIN r.writes = {r.ret}
            /\ r.writes[r.ret].status = "processing"
            /\ r.writes[r.ret].locked_until = now + LeaseSeconds
            /\ r.writes[r.ret].attempts = focus_jobs[r.ret].attempts + 1
            /\ \A f \in {"kind", "payload", "dedupe_key", "priority", "max_attempts",
                         "error_message", "created_at"} :
                r.writes[r.ret][f] = focus_jobs[r.ret][f]

\* a claim took the job of priority 5 and left a queued job of priority 10
\* that was created before it
C9_Witness ==
    \E p \in Procs : \E o \in DOMAIN focus_jobs :
        /\ job[p] # None /\ job[p] \in DOMAIN focus_jobs
        /\ focus_jobs[job[p]].status = "processing"
        /\ focus_jobs[job[p]].attempts = 1
        /\ focus_jobs[job[p]].locked_until = now + LeaseSeconds
        /\ focus_jobs[o].status = "queued"
        /\ focus_jobs[o].priority > focus_jobs[job[p]].priority
        /\ focus_jobs[o].created_at < focus_jobs[job[p]].created_at

\* C7: after expire_stale_leases no row is in status processing with
\* locked_until before the time of the run; each such row is reset to retry
\* with locked_until cleared and attempts unchanged, no other row changes, and
\* the call returns the number of rows it reset
C7_ExpireResets ==
    \A p \in Procs :
        LET e == expire_stale_leases(p)
            after == e.writes @@ focus_jobs
            stale == { id \in DOMAIN focus_jobs :
                         /\ focus_jobs[id].status = "processing"
                         /\ focus_jobs[id].locked_until # NULL
                         /\ focus_jobs[id].locked_until < now }
        IN  /\ DOMAIN after = DOMAIN focus_jobs
            /\ \A id \in DOMAIN after :
                ~(/\ after[id].status = "processing"
                  /\ after[id].locked_until # NULL
                  /\ after[id].locked_until < now)
            /\ \A id \in stale :
                after[id] = [focus_jobs[id] EXCEPT !.status = "retry", !.locked_until = NULL]
            /\ \A id \in DOMAIN focus_jobs \ stale : after[id] = focus_jobs[id]
            /\ e.ret = Cardinality(stale)

\* a job whose lease ran out was reset by expire_stale_leases: it is in retry
\* with no locked_until and the attempt of its claim still counted
C7_Witness ==
    \E id \in DOMAIN focus_jobs :
        /\ focus_jobs[id].status = "retry"
        /\ focus_jobs[id].locked_until = NULL
        /\ focus_jobs[id].attempts = 1
        /\ now > LeaseSeconds

\* the jobs that a fail_job put into retry and whose backoff deadline is set
Backing == { id \in DOMAIN focus_jobs :
               focus_jobs[id].status = "retry" /\ focus_jobs[id].locked_until # NULL }

\* C6: after a claim and a fail with attempts < max_attempts, a claim made
\* before the backoff deadline does not return the job, and returns nil when
\* the job is the only one; once the deadline has passed the job is claimable
\* again, and a claim for which it is the only job returns it with attempts
\* incremented by one
C6_BackoffHidesJob ==
    \A id \in Backing : \A p \in Procs : \A kinds \in ClaimInputs :
        \A r \in claim_job(p, kinds) :
            /\ now <= focus_jobs[id].locked_until =>
                /\ r.ret # id
                /\ DOMAIN focus_jobs = {id} => r.ret = None
            /\ now > focus_jobs[id].locked_until =>
                /\ id \in Candidates(p, {})
                /\ (DOMAIN focus_jobs = {id} /\ kinds = {}) =>
                    /\ r.ret = id
                    /\ r.writes[id].attempts = focus_jobs[id].attempts + 1
                    /\ r.writes[id].error_message = focus_jobs[id].error_message

\* a job failed on its first attempt at time 0 was claimed again after its
\* deadline of 60 s: second attempt, error of the first still recorded
C6_Witness ==
    \E p \in Procs :
        /\ job[p] # None /\ job[p] \in DOMAIN focus_jobs
        /\ focus_jobs[job[p]].status = "processing"
        /\ focus_jobs[job[p]].attempts = 2
        /\ focus_jobs[job[p]].error_message = "error"
        /\ focus_jobs[job[p]].locked_until = BackoffSeconds(1) + 1 + LeaseSeconds

\* C4 (as stated): once a job is done or failed its status never changes
C4_TerminalNeverChanges ==
    [][ \A id \in DOMAIN focus_jobs :
          focus_jobs[id].status \in {"done", "failed"}
          => focus_jobs'[id].status = focus_jobs[id].status ]_vars

\* worker w holds a job that its claim_job returned and has not yet given back
Holding(w) == pc[w] \in {"dispatch", "complete", "fail"}

C3_OneHandler ==
    \A w \in Procs : \A v \in Procs \ {w} :
        pc[w] = "dispatch" =>
            /\ pc[v] = "dispatch" => job[v] # job[w]
            /\ lease[w] < now =>
                /\ job[w] \notin Stale(v)
                /\ job[w] \notin DOMAIN expire_stale_leases(v).writes
                /\ job[w] \notin Claimable(v, JOB_KINDS)

\* the handler of worker w has outlived its lease, and worker v has run
\* expire_stale_leases and stands before its claim_job
C3_Witness ==
    \E w \in Procs : \E v \in Procs \ {w} :
        /\ pc[w] = "dispatch" /\ job[w] # None
        /\ lease[w] # NULL /\ lease[w] < now
        /\ pc[v] = "claim"

\* C8 (as stated): a worker claims a job and dies; once the lease of 300 s has
\* run out, an expire_stale_leases of another worker leaves the job in retry
C8_DeadWorkerJobExpires ==
    [][ \A w \in Procs : \A v \in Procs \ {w} :
          (/\ pc[w] = "dead"
           /\ lease[w] < now
           /\ \A q \in Procs \ {w} : job[q] # job[w]
           /\ focus_jobs[job[w]].status \notin {"done", "failed"}
           /\ pc[v] = "expire" /\ pc'[v] = "claim")
          => focus_jobs'[job[w]].status = "retry" ]_vars

\* a worker died holding a job whose lease has since run out, and the job is
\* queued with no attempt counted
C8_Witness ==
    \E w \in Procs :
        /\ pc[w] = "dead" /\ lease[w] < now
        /\ focus_jobs[job[w]].status = "queued"
        /\ focus_jobs[job[w]].attempts = 0
        /\ \E v \in Procs \ {w} : pc[v] = "claim"

\* C5: fail on a claimed job whose attempts, as incremented by the claim, are
\* below max_attempts puts it into retry, records the error message and sets
\* locked_until = now + min(2^attempts * 30, 3600) (60 s after the first
\* attempt, 3600 s from the seventh on); with attempts at max_attempts the job
\* becomes failed
C5_FailBacksOff ==
    [][ \A p \in Procs :
          (job[p] # None /\ job'[p] = None /\ focus_jobs[job[p]].status = "processing") =>
            LET old == focus_jobs[job[p]]
                new == focus_jobs'[job[p]]
                delay == IF (2 ^ old.attempts) * 30 <= 3600
                         THEN (2 ^ old.attempts) * 30 ELSE 3600
            IN  /\ old.attempts < old.max_attempts =>
                    /\ new.status = "retry"
                    /\ new.error_message = "error"
                    /\ new.locked_until = now + delay
                    /\ old.attempts = 1 => new.locked_until = now + 60
                    /\ old.attempts >= 7 => new.locked_until = now + 3600
                /\ old.attempts >= old.max_attempts => new.status = "failed"
                /\ new.attempts = old.attempts ]_vars

\* a job failed on its seventh attempt or a later one waits 3600 s
C5_Witness ==
    \E id \in DOMAIN focus_jobs :
        /\ focus_jobs[id].status = "retry"
        /\ focus_jobs[id].attempts >= 7
        /\ focus_jobs[id].attempts < focus_jobs[id].max_attempts
        /\ focus_jobs[id].error_message = "error"
        /\ focus_jobs[id].locked_until = now + BackoffCap

\* the stored turns of the session are the turns of the transcript as it is now
StoredIs(turns) ==
    /\ Len(TurnsOf(SessionId)) = Len(turns)
    /\ \A i \in 1..Len(turns) :
        /\ TurnsOf(SessionId)[i].turn_number = turns[i].turn_number
        /\ TurnsOf(SessionId)[i].content_hash = turns[i].content_hash
        /\ TurnsOf(SessionId)[i].raw_jsonl = turns[i].raw_jsonl

\* C10: record_session is idempotent: on a transcript with N turns of a
\* session not recorded before, a call returns turns_recorded = N and
\* turns_skipped = 0 and stores N turn rows; on a transcript whose turns are
\* the stored ones (a further call on the unchanged transcript), a call
\* returns turns_recorded = 0 and turns_skipped = N and leaves the stored rows
\* unchanged
C10_RecordIdempotent ==
    LET turns == parse_session_into_turns(transcript)
        N == Len(turns)
        r == record_session(SessionId)
        stored == SelectSeq(r.agent_turns, LAMBDA t : t.session_id = SessionId)
    IN  /\ (SessionId \notin DOMAIN agent_sessions /\ TurnsOf(SessionId) = << >>) =>
            /\ r.result = [turns_recorded |-> N, turns_skipped |-> 0, error |-> ""]
            /\ Len(stored) = N
            /\ \A i \in 1..N :
                /\ stored[i].turn_number = i - 1
                /\ stored[i].content_hash = turns[i].content_hash
        /\ StoredIs(turns) =>
            /\ r.result = [turns_recorded |-> 0, turns_skipped |-> N, error |-> ""]
            /\ r.agent_turns = agent_turns

\* a transcript of two turns has been recorded, and a further call on it has
\* returned 0 recorded and 2 skipped
C10_Witness ==
    /\ Len(parse_session_into_turns(transcript)) = 2
    /\ StoredIs(parse_session_into_turns(transcript))
    /\ agent_sessions[SessionId].turn_count = 2
    /\ result = [turns_recorded |-> 0, turns_skipped |-> 2, error |-> ""]

\* C16: for every job a worker claims, a handler that returns leaves the job
\* done at the end of the iteration, and a handler that raises leaves it as
\* fail_job sets it (retry with backoff, or failed at max_attempts) with the
\* error text recorded; in both cases the job is not left in processing and
\* the worker goes on with its next iteration
C16_IterationSettlesJob ==
    [][ \A w \in Procs :
          (pc[w] \in {"complete", "fail"} /\ pc'[w] # pc[w] /\ pc'[w] # "dead") =>
            LET claimed == pending[w][job[w]]
                after == focus_jobs'[job[w]]
            IN  /\ pc'[w] = "expire"
                /\ pending'[w] = NoWrites
                /\ after.status # "processing"
                /\ after.attempts = claimed.attempts
                /\ pc[w] = "complete" => after.status = "done"
                /\ pc[w] = "fail" =>
                    /\ after.error_message = "error"
                    /\ claimed.attempts < claimed.max_attempts =>
                        /\ after.status = "retry"
                        /\ after.locked_until = now + BackoffSeconds(claimed.attempts)
                    /\ claimed.attempts >= claimed.max_attempts => after.status = "failed" ]_vars

\* the handler of a job raised on its last attempt, the job is failed with the
\* error recorded, and the worker is in its next iteration
C16_Witness ==
    \E w \in Procs : \E id \in DOMAIN focus_jobs :
        /\ pc[w] = "claim" /\ job[w] = None
        /\ focus_jobs[id].status = "failed"
        /\ focus_jobs[id].error_message = "error"
        /\ focus_jobs[id].attempts = focus_jobs[id].max_attempts

\* C17 (as stated): after a shutdown signal the worker claims no further job,
\* and a stopped worker has settled the job it claimed: it holds none and has
\* left none in processing
C17_NoClaimAfterSignal ==
    [][ \A w \in Procs :
          /\ (~_running[w] /\ pc[w] = "claim") => job'[w] = None
          /\ pc'[w] = "stopped" =>
                /\ job'[w] = None /\ pending'[w] = NoWrites
                /\ \A id \in DOMAIN focus_jobs' : focus_jobs'[id].status # "processing" ]_vars

\* the signal has arrived while the worker stood between its loop test and
\* its claim_job, and the worker now runs the handler of a job it claimed since
C17_Witness ==
    \E w \in Procs : ~_running[w] /\ pc[w] = "dispatch" /\ job[w] # None

\* C14: the session_summary handler of a session with turns sets session_title
\* to the first part cut to 100 characters and session_summary to the parts
\* joined by "; " cut to 500, sets is_processed, enqueues one skill_extract job
\* keyed skill_extract:{session_id} with priority 30, and its job goes on to done
C14_SummaryHandler ==
    [][ \A w \in Procs :
          (Dispatching(w, {"session_summary"}) /\ pc'[w] # pc[w]) =>
            LET session_id == Held(w).payload.session_id
                h == process_session_summary_job(session_id)
            IN  /\ agent_sessions' = h.flushed
                /\ pc'[w] = "complete"
                /\ TurnsOf(session_id) # << >> =>
                     /\ agent_sessions'[session_id].is_processed
                     /\ \E id \in DOMAIN focus_jobs' :
                          /\ focus_jobs'[id].kind = "skill_extract"
                          /\ focus_jobs'[id].dedupe_key = <<"skill_extract", session_id>>
                          /\ focus_jobs'[id].priority = 30 ]_vars

\* the session_summary job of a session with turns has used up its attempts
\* and the session is still not marked as processed
C14_Witness ==
    \E id \in DOMAIN focus_jobs :
        /\ focus_jobs[id].kind = "session_summary"
        /\ focus_jobs[id].status = "failed"
        /\ focus_jobs[id].attempts = focus_jobs[id].max_attempts
        /\ TurnsOf(focus_jobs[id].payload.session_id) # << >>
        /\ ~agent_sessions[focus_jobs[id].payload.session_id].is_processed

TurnKinds == {"turn_summary", "entity_extract", "artifact_extract"}

\* the committed jobs of a kind that carry a payload
JobsFor(rows, kind, payload) ==
    { id \in DOMAIN rows : rows[id].kind = kind /\ rows[id].payload = payload }

\* C11: when a session_process handler completes, each turn it recorded has
\* exactly one turn_summary, one entity_extract and one artifact_extract job,
\* keyed by the turn's id, and the session has exactly one session_summary job;
\* a run that records no turn adds no job row, and no stored turn ever has two
\* jobs of one kind
C11_ChildJobsOnce ==
    [][ \A w \in Procs :
          ( /\ pc[w] \in {"dispatch", "commit"}
            /\ Held(w).kind = "session_process"
            /\ pc'[w] = "complete" ) =>
            LET session_id == Held(w).payload.session_id
                recorded == TurnIds(agent_turns', session_id) \ TurnIds(agent_turns, session_id)
            IN  /\ \A i \in recorded : \A kind \in TurnKinds :
                     /\ Cardinality(JobsFor(focus_jobs', kind, [turn_id |-> i])) = 1
                     /\ \A id \in JobsFor(focus_jobs', kind, [turn_id |-> i]) :
                          focus_jobs'[id].dedupe_key = <<kind, i>>
                /\ recorded # {} =>
                     Cardinality(JobsFor(focus_jobs', "session_summary",
                                         [session_id |-> session_id])) = 1
                /\ recorded = {} => focus_jobs' = focus_jobs
                /\ \A i \in TurnIds(agent_turns', session_id) : \A kind \in TurnKinds :
                     Cardinality(JobsFor(focus_jobs', kind, [turn_id |-> i])) = 1 ]_vars

\* two turns were recorded by two runs of the handler, and a third run on the
\* same transcript has completed as well
C11_Witness ==
    /\ Len(agent_turns) = 2
    /\ Len(transcript) = 2
    /\ Cardinality({ id \in DOMAIN focus_jobs :
                       /\ focus_jobs[id].kind = "session_process"
                       /\ focus_jobs[id].status = "done" }) = 3
    /\ Cardinality({ id \in DOMAIN focus_jobs : focus_jobs[id].kind = "turn_summary" }) = 2

\* C12: every run of the session_process handler that records at least one
\* new turn leaves a session_summary job of the session that is still to run
\* (queued or waiting for a retry), also when the run follows a growth of the
\* transcript and an earlier session_summary job exists or has finished
C12_SummaryQueuedAfterRun ==
    [][ \A w \in Procs :
          ( /\ pc[w] = "commit"
            /\ Held(w).kind = "session_process"
            /\ pc'[w] = "complete"
            /\ Len(agent_turns') > Len(agent_turns) ) =>
            \E id \in JobsFor(focus_jobs', "session_summary",
                              [session_id |-> Held(w).payload.session_id]) :
                focus_jobs'[id].status \in {"queued", "retry"} ]_vars

\* the transcript has grown after the session_summary job of the session came
\* to its end; the handler has recorded the new turn and is about to commit,
\* and it has no session_summary job among its inserts
C12_Witness ==
    \E w \in Procs :
        /\ pc[w] = "commit"
        /\ handler_tx[w].new_turns # << >>
        /\ JobsFor(handler_tx[w].jobs, "session_summary", [session_id |-> SessionId]) = {}
        /\ \E id \in JobsFor(focus_jobs, "session_summary", [session_id |-> SessionId]) :
              focus_jobs[id].status = "failed"

\* C13: a turn_summary, entity_extract or artifact_extract job that can be
\* claimed names a turn row that is committed, and so does every such job
\* that a worker is dispatching: the handler that stored the turn has
\* committed before any of the turn's jobs can run
C13_TurnBeforeJobs ==
    /\ \A id \in DOMAIN focus_jobs :
         focus_jobs[id].kind \in TurnKinds =>
           focus_jobs[id].payload.turn_id \in TurnIds(agent_turns, SessionId)
    /\ \A w \in Procs :
         (pc[w] = "dispatch" /\ Held(w).kind \in TurnKinds) =>
           Held(w).payload.turn_id \in TurnIds(agent_turns, SessionId)

\* one worker dispatches a job of a turn while the other runs a
\* session_process handler of the same session
C13_Witness ==
    \E w \in Procs : \E o \in Procs \ {w} :
        /\ pc[w] = "dispatch"
        /\ Held(w).kind \in TurnKinds
        /\ Held(w).payload.turn_id \in TurnIds(agent_turns, SessionId)
        /\ pc[o] = "dispatch"
        /\ Held(o).kind = "session_process"

\* C20: when the transcript file does not exist, record_session returns the
\* error file_not_found with turns_recorded = 0, the session_process handler
\* raises, and the job goes to retry with the backoff of its attempt until its
\* attempts have reached max_attempts, when it becomes failed; no session row,
\* no turn row and no child job is ever written
C20_MissingTranscript ==
    [][ ~path_exists =>
          /\ \A w \in Procs :
               (Dispatching(w, {"session_process"}) /\ pc'[w] # pc[w]) =>
                 /\ pc'[w] = "fail"
                 /\ result' = [turns_recorded |-> 0, turns_skipped |-> 0,
                               error |-> "file_not_found"]
          /\ \A w \in Procs :
               (pc[w] = "fail" /\ pc'[w] # pc[w]) =>
                 LET claimed == Held(w)
                     after == focus_jobs'[job[w]]
                 IN  IF claimed.attempts < claimed.max_attempts
                     THEN /\ after.status = "retry"
                          /\ after.locked_until = now + BackoffSeconds(claimed.attempts)
                     ELSE after.status = "failed"
          /\ agent_sessions' = << >>
          /\ agent_turns' = << >>
          /\ \A id \in DOMAIN focus_jobs' :
               /\ focus_jobs'[id].kind = "session_process"
               /\ focus_jobs'[id].status # "done" ]_vars

\* the job of a session without a transcript file has failed for good
C20_Witness ==
    /\ ~path_exists
    /\ \E id \in DOMAIN focus_jobs :
         /\ focus_jobs[id].kind = "session_process"
         /\ focus_jobs[id].status = "failed"
         /\ focus_jobs[id].attempts = DefaultMaxAttempts
         /\ focus_jobs[id].error_message = "error"

\* the number of claims that the rows record
RECURSIVE TotalAttempts(_, _)
TotalAttempts(rows, ids) ==
    IF ids = {} THEN 0
    ELSE LET id == CHOOSE i \in ids : TRUE
         IN  rows[id].attempts + TotalAttempts(rows, ids \ {id})

\* C18: a call of process_pending_jobs(max_jobs) comes to its end; it makes at
\* most max_jobs claims, returns at the first claim that finds no job, sets a
\* job to done when its handler returned and hands it to fail_job when the
\* handler raised, and returns the number of jobs whose handler returned
C18_PendingJobs ==
    /\ \A w \in PendingCallers : <>(pc[w] = "returned")
    /\ [](\A w \in PendingCallers :
            /\ TotalAttempts(View(w), DOMAIN View(w)) <= oneshot[w].max_jobs
            /\ pc[w] = "returned" =>
                 /\ job[w] = None
                 /\ oneshot[w].returned =
                      Cardinality({ id \in DOMAIN focus_jobs : focus_jobs[id].status = "done" }))
    /\ [][ \A w \in PendingCallers :
             /\ (pc[w] = "loop" /\ Claimable(w, JOB_KINDS) = {} /\ pc'[w] # pc[w]) =>
                  pc'[w] = "returned"
             /\ pc[w] = "returned" => pc'[w] = "returned"
             /\ (pc[w] = "complete" /\ pc'[w] # pc[w]) =>
                  /\ focus_jobs'[job[w]].status = "done"
                  /\ pc'[w] = "loop"
             /\ (pc[w] = "fail" /\ pc'[w] # pc[w]) =>
                  /\ focus_jobs'[job[w]] = FailUpdate(Held(w), "error")
                  /\ focus_jobs'[job[w]].status \in {"retry", "failed"}
                  /\ pc'[w] = "loop" ]_vars

\* the call has returned after max_jobs claims though a job can be claimed
C18_Witness ==
    \E w \in PendingCallers :
        /\ pc[w] = "returned"
        /\ oneshot[w].max_jobs > 0
        /\ oneshot[w].iterations = oneshot[w].max_jobs
        /\ Claimable(w, JOB_KINDS) # {}

\* the smaller of two numbers
Least(a, b) == IF a < b THEN a ELSE b

\* C19: the turn_summary handler never raises on account of the summarizer:
\* for a turn without a summary it stores a summary whatever the summarizer
\* does, and when the summarizer raises or its answer cannot be parsed it
\* stores turn_title = user_message[:80] and assistant_summary =
\* user_message[:200]; a turn that has a summary is left as it is; the job
\* goes on to complete
C19_SummaryFallback ==
    [][ \A w \in Procs :
          (Dispatching(w, {"turn_summary"}) /\ Held(w).payload.turn_id \in 1..Len(agent_turns)) =>
            LET turn == agent_turns[Held(w).payload.turn_id]
                n == Len(turn.user_message)
            IN  /\ \A llm \in LlmOutcomes :
                     LET after == TurnSummaryUpdate(turn, llm)
                     IN  /\ Truthy(turn.assistant_summary) => after = turn
                         /\ ~Truthy(turn.assistant_summary) =>
                              /\ Truthy(after.assistant_summary)
                              /\ (llm.raises \/ (llm.title = "" /\ llm.summary = "")) =>
                                   /\ after.turn_title = Text(Message(Least(n, 80)))
                                   /\ after.assistant_summary = Text(Message(Least(n, 200)))
                /\ pc'[w] \notin {pc[w], "dead"} =>
                     /\ pc'[w] = "complete"
                     /\ \E llm \in LlmOutcomes :
                          agent_turns' = [agent_turns EXCEPT
                              ![Held(w).payload.turn_id] = TurnSummaryUpdate(turn, llm)] ]_vars

\* a prompt of more than 200 characters was summarized by truncation; the
\* worker that first held the job died, and the job was done by the other
C19_Witness ==
    /\ Len(agent_turns) = 1
    /\ Len(agent_turns[1].user_message) = 201
    /\ agent_turns[1].turn_title = Text(Message(80))
    /\ agent_turns[1].assistant_summary = Text(Message(200))
    /\ \E w \in Procs :
         /\ pc[w] = "dead"
         /\ job[w] \in DOMAIN focus_jobs
         /\ focus_jobs[job[w]].kind = "turn_summary"
         /\ focus_jobs[job[w]].status = "done"

\* the session_process jobs of the session that were enqueued at a size
RecordingJobs(rows, size) ==
    { id \in DOMAIN rows :
        /\ rows[id].kind = "session_process"
        /\ rows[id].dedupe_key = <<"session_process", SessionId, size>> }

\* C21: enqueue_session_recording returns true exactly when no job of the
\* session exists for the present size of the transcript, and then inserts one
\* session_process job with priority 5 under the key of that size; otherwise it
\* inserts nothing; so there is one job for each size at which it was called
C21_RecordingJobPerSize ==
    [][ \A h \in Hooks :
          enqueue_session_recording(h) =>
            LET size == IF path_exists THEN Len(transcript) ELSE 0
            IN  /\ RecordingEnqueued(h) <=> RecordingJobs(focus_jobs, size) = {}
                /\ Cardinality(RecordingJobs(focus_jobs', size)) = 1
                /\ \A id \in RecordingJobs(focus_jobs', size) :
                     /\ focus_jobs'[id].priority = 5
                     /\ focus_jobs'[id].payload = [session_id |-> SessionId]
                /\ IF RecordingEnqueued(h)
                   THEN /\ Cardinality(DOMAIN focus_jobs') = Cardinality(DOMAIN focus_jobs) + 1
                        /\ \A id \in DOMAIN focus_jobs : focus_jobs'[id] = focus_jobs[id]
                   ELSE focus_jobs' = focus_jobs ]_vars

\* the hook has enqueued a job at each of three sizes of the transcript, and a
\* further call at the present size returns false
C21_Witness ==
    /\ \A size \in 0..2 : RecordingJobs(focus_jobs, size) # {}
    /\ \A h \in Hooks : ~RecordingEnqueued(h)

\* C22: both hook entry points end with exit status 0, whatever the text on
\* stdin is and whatever happens inside: text that is not JSON, JSON that is
\* not an object, missing fields, disabled settings, a database or retrieval
\* failure, success
C22_HookExitsZero ==
    hook_run.state = "exited" => hook_run.exit_status = 0

\* a hook command that was given a JSON value that is not an object has
\* ended with status 1
C22_Witness ==
    /\ hook_run.state = "exited"
    /\ hook_run.stdin.type \in {"array", "number", "string", "null"}
    /\ hook_run.exit_status = 1

\* what the last call of classify returned found nothing: no project, no
\* person, no workspace project, and the query type is general
NothingMatched(r) ==
    /\ r.project_slugs = << >>
    /\ r.person_names = << >>
    /\ ~Truthy(r.workspace_project)
    /\ r.query_type = "general"

\* C23 as stated: the confidence that classify returns lies in [0,1], and it
\* is below 0.1 if and only if no project or person matched, no workspace
\* project is set and the query type is general
C23_BelowFloorIffNothing ==
    \A i \in 1..Len(classified) :
        /\ classified[i].result.confidence \in 0..10
        /\ classified[i].result.confidence < 1 <=> NothingMatched(classified[i].result)

\* C23: the confidence that classify returns lies in [0,1]; it is at most 0.1
\* if and only if no project or person matched, no workspace project is set
\* and the query type is general; it is below 0.1 (then it is 0) if and only
\* if the prompt is empty or shorter than 3 characters once stripped
C23_ConfidenceFloors ==
    \A i \in 1..Len(classified) :
        LET r == classified[i].result
            short == classified[i].prompt = "" \/ Len(Strip(classified[i].prompt)) < 3
        IN  /\ r.confidence \in {0, 1, 3, 5, 7, 8, 9}
            /\ r.confidence <= 1 <=> NothingMatched(r)
            /\ r.confidence < 1 <=> short
            /\ short => r = NoClassification

\* a prompt of three characters or more for which classify found nothing
\* was given the confidence 0.1
C23_Witness ==
    /\ classified # << >>
    /\ Len(Strip(classified[1].prompt)) >= 3
    /\ NothingMatched(classified[1].result)
    /\ classified[1].result.confidence = 1

SourceIds(blocks) == { blocks[i].source_id : i \in 1..Len(blocks) }

\* C24: the list that retrieve returns has no two blocks with the same
\* source_id, each of its blocks is the first gathered block of its source_id,
\* and it is ordered by relevance_score, the greatest first; it is empty when
\* the confidence is below 0.1, and from 0.1 on (0.1 included) it holds every
\* source_id that was gathered
C24_UniqueSortedBlocks ==
    retrieved # << >> =>
        LET blocks == retrieved[1]
            classification == classified[1].result
            gathered == Gathered(classification)
        IN  /\ \A i, j \in 1..Len(blocks) :
                  i < j => /\ blocks[i].source_id # blocks[j].source_id
                           /\ blocks[i].relevance_score >= blocks[j].relevance_score
            /\ \A i \in 1..Len(blocks) : \E k \in 1..Len(gathered) :
                  /\ gathered[k] = blocks[i]
                  /\ \A m \in 1..(k - 1) : gathered[m].source_id # blocks[i].source_id
            /\ classification.confidence < 1 => blocks = << >>
            /\ classification.confidence >= 1 => SourceIds(blocks) = SourceIds(gathered)

\* retrieve has returned fewer blocks than it gathered, of three scores or
\* more, and not in the order in which they were gathered
C24_Witness ==
    /\ retrieved # << >>
    /\ LET gathered == Gathered(classified[1].result)
       IN  /\ Len(retrieved[1]) < Len(gathered)
           /\ retrieved[1] # UniqueBlocks(gathered, 1, {}, << >>)
    /\ Cardinality({ retrieved[1][i].relevance_score : i \in 1..Len(retrieved[1]) }) >= 3

\* a block of the call whose cost fits the budget that the header leaves
SomeBlockFits(call) ==
    \E i \in 1..Len(call.blocks) :
        _estimate_tokens(_format_single_block(call.blocks[i]))
            <= call.max_tokens - _estimate_tokens(Header)

\* C25: for a list of blocks that is not empty and a budget of at least the
\* cost of the header, format_context_blocks returns the empty string or a
\* text that begins with the header; the estimated tokens of the text it
\* returns do not exceed the budget; a block is included whenever some single
\* block fits; with the budget 0 the text is empty
C25_WithinBudget ==
    \A i \in 1..Len(formatted) :
        LET call == formatted[i]
        IN  /\ call.max_tokens = 0 => call.text = ""
            /\ (call.blocks # << >> /\ call.max_tokens >= _estimate_tokens(Header)) =>
                  /\ call.text = "" \/ SubSeq(call.text, 1, Len(Header)) = Header
                  /\ call.text # "" => _estimate_tokens(call.text) <= call.max_tokens
                  /\ SomeBlockFits(call) => call.text # ""

\* a text was returned whose estimated tokens exceed the budget of the call
C25_Witness ==
    /\ formatted # << >>
    /\ formatted[1].text # ""
    /\ _estimate_tokens(formatted[1].text) > formatted[1].max_tokens

\* the states that the state file may hold: the one before every call, and
\* the one that each call that has begun writes
CompleteStates ==
    { IF inodes # << >> /\ inodes[1].by = None THEN inodes[1].data ELSE EmptyState }
    \cup { writer[w].state : w \in { v \in StateWriters : writer[v].pc # "idle" } }

\* C26: under every interleaving of the calls that write the state file and
\* of readers, the state file holds at every moment the complete state that
\* one single call wrote, and get_active_project returns the value of the
\* state before or of the state after a concurrent write
C26_AtomicStateFile ==
    /\ state_dir.json # None =>
          /\ inodes[state_dir.json].written = "all"
          /\ inodes[state_dir.json].data \in CompleteStates
    /\ \A i \in 1..Len(state_read) :
          state_read[i].value \in
              { ActiveProject(state, state_read[i].workspace) : state \in CompleteStates }

\* two calls are writing: active_project.json is an empty file, which one
\* call has renamed and the other has truncated, and a reader was given no
\* project although every state before and after the calls has one
C26_Witness ==
    /\ state_dir.json # None
    /\ inodes[state_dir.json].written = "none"
    /\ \E w \in StateWriters : writer[w].pc = "done"
    /\ \E w \in StateWriters : writer[w].pc = "opened"
    /\ state_read # << >>
    /\ state_read[1].value = Null
    /\ \A state \in CompleteStates : ActiveProject(state, state_read[1].workspace) # Null

\* the positions, among the kept records, of the user records with a text
UserPositions(messages) ==
    { i \in 1..Len(messages) : messages[i].role = "user" /\ messages[i].text # "" }

\* the kept records from position i up to the next user record
TurnLines(messages, i) ==
    LET later == { j \in (i + 1)..Len(messages) : messages[j].role = "user" }
        last == IF later = {} THEN Len(messages)
                ELSE (CHOOSE j \in later : \A k \in later : j <= k) - 1
    IN  SubSeq(messages, i, last)

AutoSkillsOfDay(t) ==
    { i \in 1..Len(generated_skills) :
        /\ generated_skills[i].source = "auto"
        /\ today_start(generated_skills[i].created_at) = today_start(t) }

GateDescription(cc_session_id) ==
    IF cc_session_id \in DOMAIN agent_sessions
       /\ agent_sessions[cc_session_id].session_summary # Null
    THEN agent_sessions[cc_session_id].session_summary[1]
    ELSE ""

\* an active record was written for a session whose description, lowercased
\* and with its spaces normalized, is that of the session
RecordedAlike(cc_session_id) ==
    \E i \in 1..Len(generated_skills) :
        /\ generated_skills[i].is_active
        /\ generated_skills[i].source_session_id \in DOMAIN agent_sessions
        /\ NormalizedDescription(GateDescription(generated_skills[i].source_session_id))
               = NormalizedDescription(GateDescription(cc_session_id))

QuietEnds == {"no_session", "not_qualified", "no_skill", "FileExistsError", "ValueError"}

\* C30: a skill_extract job ends in status done, without a retry, when the
\* session does not qualify, when skill generation fails or returns nothing,
\* and when the installation is refused (the skill exists already or its
\* content is invalid); in these cases no GeneratedSkillRecord is written
C30_QuietEnds ==
    [][\A w \in Procs :
          /\ ( /\ Dispatching(w, {"skill_extract"})
               /\ skill_run'[w] # skill_run[w]
               /\ skill_run'[w].stage = "ended"
               /\ skill_run'[w].outcome \in QuietEnds ) =>
                 /\ pc'[w] = "complete"
                 /\ generated_skills' = generated_skills
                 /\ skills_dir' = skills_dir
          /\ ( /\ pc[w] = "complete"
               /\ pc'[w] # "complete"
               /\ Held(w).kind = "skill_extract"
               /\ skill_run[w].stage = "ended"
               /\ skill_run[w].outcome \in QuietEnds ) =>
                 /\ focus_jobs'[job[w]].status = "done"
                 /\ focus_jobs'[job[w]].attempts = Held(w).attempts
                 /\ focus_jobs'[job[w]].error_message = ""]_vars

\* every job is done after one attempt and one session has a record: the
\* handler of worker 1 ended last with a skill that exists already, the one
\* of worker 2 without a skill from the generator
C30_Witness ==
    /\ \A id \in DOMAIN focus_jobs :
          focus_jobs[id].status = "done" /\ focus_jobs[id].attempts = 1
    /\ Len(generated_skills) = 1
    /\ skill_run[1] = SkillRunEnded("FileExistsError")
    /\ skill_run[2] = SkillRunEnded("no_skill")

\* the committed rows that hold the dedupe key K
RowsWithKey(rows, K) == { id \in DOMAIN rows : rows[id].dedupe_key = K }

\* C33: a dedupe key blocks enqueue for good: once a row with the key K
\* exists, in any status, done and failed included, every later enqueue with
\* K returns nil and inserts nothing, so that over the whole history at most
\* one row holds K, and it is the same row
C33_KeyBlocksForever ==
    [][\A K \in Keys :
          /\ Cardinality(RowsWithKey(focus_jobs', K)) <= 1
          /\ RowsWithKey(focus_jobs, K) # {} =>
                /\ RowsWithKey(focus_jobs', K) = RowsWithKey(focus_jobs, K)
                /\ \A p \in Procs : \A in \in EnqueueInputs :
                      in[3] = K =>
                        /\ enqueue_job(p, in[1], in[2], in[3], in[4], in[5]).ret = None
                        /\ enqueue_job(p, in[1], in[2], in[3], in[4], in[5]).writes
                              = NoWrites]_vars

\* the job with key "a" has failed for good, a second job without a key was
\* enqueued after it, and an enqueue with "a" is returned nil
C33_Witness ==
    \E id \in DOMAIN focus_jobs : \E later \in DOMAIN focus_jobs :
        /\ focus_jobs[id].dedupe_key = <<"a">>
        /\ focus_jobs[id].status = "failed"
        /\ later > id
        /\ focus_jobs[later].dedupe_key = NoKey
        /\ \A p \in Procs : \A in \in EnqueueInputs :
              in[3] = <<"a">> =>
                  enqueue_job(p, in[1], in[2], in[3], in[4], in[5]).ret = None

\* C34: the attempts counter of a job never exceeds its max_attempts, and no
\* job is claimed more often than max_attempts times (each claim adds one to
\* attempts), after any sequence of claim, fail, complete and
\* expire_stale_leases calls, claims that end by lease expiry included
C34_AttemptsBounded ==
    \A id \in DOMAIN focus_jobs :
        focus_jobs[id].attempts <= focus_jobs[id].max_attempts

\* a job with max_attempts 1 whose first claim ended by lease expiry is
\* processing again, claimed a second time
C34_Witness ==
    \E id \in DOMAIN focus_jobs :
        /\ focus_jobs[id].max_attempts = 1
        /\ focus_jobs[id].attempts = 2
        /\ focus_jobs[id].status = "processing"
        /\ focus_jobs[id].error_message = ""
        /\ now > LeaseSeconds

\* C36: in run_worker and process_pending_jobs the claim update of a job and
\* the complete or fail update that follows are committed together, in one
\* transaction at the end of the iteration: a claim changes no committed row;
\* when the worker dies while the handler runs, the committed status, attempts
\* and locked_until of the job are as before the claim; the end of the
\* iteration commits the attempt together with the status done, retry or
\* failed; and no committed row is ever in status processing
C36_ClaimCommitsAtEnd ==
    [][/\ \A id \in DOMAIN focus_jobs' : focus_jobs'[id].status # "processing"
       /\ \A w \in Procs :
            /\ (job[w] = None /\ job'[w] # None) =>
                  /\ focus_jobs' = focus_jobs
                  /\ pending'[w][job'[w]].status = "processing"
                  /\ pending'[w][job'[w]].attempts = focus_jobs[job'[w]].attempts + 1
            /\ (pc[w] # "dead" /\ pc'[w] = "dead") =>
                  /\ focus_jobs' = focus_jobs
                  /\ pending'[w] = NoWrites
                  /\ focus_jobs'[job[w]].status \in {"queued", "retry"}
                  /\ focus_jobs'[job[w]].attempts = Held(w).attempts - 1
                  /\ focus_jobs'[job[w]].locked_until # Held(w).locked_until
            /\ (job[w] # None /\ job'[w] = None) =>
                  /\ focus_jobs'[job[w]].status \in {"done", "retry", "failed"}
                  /\ focus_jobs'[job[w]].attempts = focus_jobs[job[w]].attempts + 1
                  /\ pending'[w] = NoWrites]_vars

\* worker 1 died while its handler ran: the committed row of its job is
\* queued with no attempt and no lease, and worker 2 has claimed the job
C36_Witness ==
    /\ pc[1] = "dead"
    /\ job[1] # None
    /\ focus_jobs[job[1]].status = "queued"
    /\ focus_jobs[job[1]].attempts = 0
    /\ focus_jobs[job[1]].locked_until = NULL
    /\ pc[2] = "dispatch"
    /\ job[2] = job[1]

\* the ids that the rows of the model can have
DrainIds == 1..MaxWorkerJobs

\* C35: under a fairly scheduled worker loop and advancing time, with no
\* enqueue from outside after the last one, every job that was enqueued comes
\* to status done or failed: no job stays queued, retry or processing forever
C35_EveryJobEnds ==
    \A id \in DrainIds :
        (id \in DOMAIN focus_jobs) ~>
            (id \in DOMAIN focus_jobs /\ focus_jobs[id].status \in {"done", "failed"})

\* a job whose handler raised at each of its ten attempts has come to failed,
\* after the retry delays have passed
C35_Witness ==
    \E id \in DOMAIN focus_jobs :
        /\ focus_jobs[id].status = "failed"
        /\ focus_jobs[id].max_attempts = DefaultMaxAttempts
        /\ focus_jobs[id].attempts = DefaultMaxAttempts
        /\ now > BackoffCap

\* no record occurs twice in the file (each record of a transcript carries a
\* uuid of its own)
DistinctRecords(file) ==
    \A i, j \in 1..Len(file) : file[i] = file[j] => i = j

\* C38: for any sequence of record_session calls on a session whose transcript
\* only grows by appended records, among them assistant records appended to
\* the last turn that is already recorded, every call succeeds without a
\* conflict on (session_id, turn_number), no two stored turns of the session
\* have the same turn_number, the rows of the stored turns are not modified,
\* and turn_count is the number of stored turns
C38_GrowingTranscript ==
    [][ (transcript' = transcript /\ DistinctRecords(transcript)) =>
            /\ result'.error # "IntegrityError"
            /\ Len(agent_turns') >= Len(agent_turns)
            /\ \A i \in 1..Len(agent_turns) : agent_turns'[i] = agent_turns[i]
            /\ \A i, j \in 1..Len(agent_turns') :
                  (/\ agent_turns'[i].session_id = agent_turns'[j].session_id
                   /\ agent_turns'[i].turn_number = agent_turns'[j].turn_number) => i = j
            /\ SessionId \in DOMAIN agent_sessions' =>
                  agent_sessions'[SessionId].turn_count =
                      Len(SelectSeq(agent_turns', LAMBDA t : t.session_id = SessionId))
      ]_vars

\* the turn of a prompt was recorded, the answer of the assistant was appended
\* to the transcript, and the next call has failed on the unique constraint
C38_Witness ==
    /\ transcript = << Line("user", FALSE, "user", "hi"),
                       Line("assistant", FALSE, "assistant", "ok") >>
    /\ Len(TurnsOf(SessionId)) = 1
    /\ TurnsOf(SessionId)[1].raw_jsonl = << Line("user", FALSE, "user", "hi") >>
    /\ result.error = "IntegrityError"

\* the position, among the kept records, of the first user record with a text
\* (0 when there is none)
FirstPrompt(messages) ==
    IF UserPositions(messages) = {} THEN 0
    ELSE CHOOSE i \in UserPositions(messages) : \A k \in UserPositions(messages) : i <= k

\* the concatenation of the raw_jsonl of the turns from the i-th on
RECURSIVE AllRawLines(_, _)
AllRawLines(turns, i) ==
    IF i > Len(turns) THEN << >>
    ELSE turns[i].raw_jsonl \o AllRawLines(turns, i + 1)

\* C39: every kept record of the transcript at or after the first user record
\* with a text belongs to the raw_jsonl of exactly one returned turn, in the
\* order of the transcript; in particular the assistant records that follow a
\* user record without text (tool results only) are part of a returned turn
C39_EveryRecordInOneTurn ==
    LET messages == SelectSeq(transcript, Kept)
        first == FirstPrompt(messages)
    IN  first > 0 =>
            AllRawLines(parse_session_into_turns(transcript), 1) =
                SubSeq(messages, first, Len(messages))

\* a prompt, then a user record that carries tool results only, then an
\* assistant record: the parser has returned the turn of the prompt
C39_Witness ==
    /\ transcript = << Line("user", FALSE, "user", "hi"),
                       Line("user", FALSE, "user", ""),
                       Line("assistant", FALSE, "assistant", "ok") >>
    /\ Len(parse_session_into_turns(transcript)) = 1
    /\ result.turns_recorded = 1

\* the entry of a state that a call with this workspace addresses: the global
\* slug for "", else the slug of the workspace; Null when there is none
StateEntry(state, workspace) ==
    IF workspace = "" THEN state.global
    ELSE IF workspace \in DOMAIN state.workspaces THEN Text(state.workspaces[workspace])
    ELSE Null

\* the state of the file before every call
StateBefore ==
    IF inodes # << >> /\ inodes[1].by = None THEN inodes[1].data ELSE EmptyState

\* the writers whose call has begun
StateCallers == { w \in StateWriters : writer[w].pc # "idle" }

\* C40: set_active_project and clear_active_project change only the entry
\* they address: after any interleaving of concurrent calls that address
\* different keys, the update of every call is in the state file, no other
\* entry has changed, and no call has failed because of another one
C40_DisjointUpdates ==
    (\A v, w \in StateCallers : v # w => writer[v].call.workspace # writer[w].call.workspace) =>
        /\ \A w \in StateCallers : writer[w].pc # "raised"
        /\ (\A w \in StateCallers : writer[w].pc = "done") =>
              /\ \A w \in StateCallers :
                    StateEntry(_read_state, writer[w].call.workspace) =
                        IF writer[w].call.op = "set" THEN Text(writer[w].call.slug) ELSE Null
              /\ \A workspace \in {"", "/home/u/apollo"} \
                                  { writer[w].call.workspace : w \in StateCallers } :
                    StateEntry(_read_state, workspace) = StateEntry(StateBefore, workspace)

\* one call has set the global project and another the project of a
\* workspace, both have returned, and the state file holds the project of the
\* workspace only: the global project is the one of before the calls
C40_Witness ==
    /\ \A w \in StateWriters : writer[w].pc = "done"
    /\ \E v, w \in StateWriters :
          /\ writer[v].call = [ op |-> "set", slug |-> "apollo", workspace |-> "" ]
          /\ writer[w].call = [ op |-> "set", slug |-> "hermes", workspace |-> "/home/u/apollo" ]
    /\ StateBefore.global = Text("zeus")
    /\ _read_state = [ global |-> Text("zeus"),
                       workspaces |-> ("/home/u/apollo" :> "hermes") ]

\* C32: with a single worker and no handler failure, the session_summary job
\* of a session (priority 25) is claimed only after every turn_summary (15),
\* artifact_extract (18) and entity_extract (20) job that the same run of
\* session_process enqueued has been claimed and has finished: the jobs of
\* the run are the ones inserted before the session_summary job, which is the
\* last insert of the first run that records a turn
C32_SummaryAfterTurnJobs ==
    \A w \in PipelineWorkers :
        (pc[w] = "dispatch" /\ Held(w).kind = "session_summary") =>
            \A id \in DOMAIN focus_jobs :
                (id < job[w] /\ focus_jobs[id].kind \in TurnKinds) =>
                    focus_jobs[id].status = "done"

\* the worker has claimed the session_summary job after the three jobs of the
\* turn that the same run enqueued, which are done
C32_Witness ==
    \E w \in PipelineWorkers :
        /\ pc[w] = "dispatch"
        /\ Held(w).kind = "session_summary"
        /\ Held(w).attempts = 1
        /\ \A kind \in TurnKinds :
              \E id \in JobsFor(focus_jobs, kind, [turn_id |-> 1]) :
                  id < job[w] /\ focus_jobs[id].status = "done"

\* the turn-level jobs of the turn have all come to done, and no worker
\* process was killed: each of the three handlers has run once
TurnJobsDone ==
    /\ \A w \in Procs : pc[w] # "dead"
    /\ \A id \in DOMAIN focus_jobs :
          focus_jobs[id].kind \in TurnKinds => focus_jobs[id].status = "done"

\* the rows that the three handlers leave when each runs alone, one after the
\* other, on the turn as it was recorded
ExpectedEntities ==
    << [ turn_id |-> 1, entity_type |-> "project", entity_id |-> "p1",
         entity_name |-> "Apollo Program", confidence |-> 9 ],
       [ turn_id |-> 1, entity_type |-> "project", entity_id |-> "p2",
         entity_name |-> "Zeus", confidence |-> 7 ],
       [ turn_id |-> 1, entity_type |-> "person", entity_id |-> "h1",
         entity_name |-> "Alice Nguyen", confidence |-> 8 ] >>

ExpectedArtifacts ==
    << [ turn_id |-> 1, artifact_type |-> "file_read", artifact_value |-> "a.py",
         artifact_metadata |-> "Read" ],
       [ turn_id |-> 1, artifact_type |-> "command", artifact_value |-> "ls",
         artifact_metadata |-> "Bash" ],
       [ turn_id |-> 1, artifact_type |-> "file_edit", artifact_value |-> "a.py",
         artifact_metadata |-> "Edit" ],
       [ turn_id |-> 1, artifact_type |-> "tool_call", artifact_value |-> "WebFetch",
         artifact_metadata |-> "WebFetch" ] >>

ExpectedSummary ==
    [ files_touched |-> << "a.py" >>, commands_run |-> << "ls" >>,
      errors_encountered |-> Null, tool_call_count |-> 4 ]

\* C31: the three turn-level handlers of one turn commute: whatever the order
\* and the interleaving in which turn_summary, entity_extract and
\* artifact_extract run, the turn row, the content row and the entity and
\* artifact rows at the end are the ones that the handlers leave when they run
\* one after the other, because each writes only columns and tables that the
\* other two neither read nor write
C31_HandlersCommute ==
    TurnJobsDone =>
        /\ \E llm \in LlmOutcomes :
              agent_turns =
                  << TurnSummaryUpdate(ExtractTurn(agent_turns[1].user_message), llm) >>
        /\ content_summary = (1 :> ExpectedSummary)
        /\ agent_turn_entities = ExpectedEntities
        /\ agent_turn_artifacts = ExpectedArtifacts

\* two workers have run the three handlers of the turn with the long prompt,
\* and the turn has the title of the summarizer
C31_Witness ==
    /\ TurnJobsDone
    /\ Len(agent_turns[1].user_message) > 50
    /\ agent_turns[1].turn_title = Text("T")
    /\ Len(agent_turn_entities) = 3
    /\ Len(agent_turn_artifacts) = 4
    /\ 1 \in DOMAIN content_summary

\* C37: the writes of a handler take effect at most once for a job: under any
\* crash of a worker (also one after the handler has committed and before the
\* job is marked done), lease expiry, retry and number of workers, the entity
\* rows and the artifact rows of a turn are the rows of at most one committed
\* execution of the entity_extract and of the artifact_extract handler
C37_WritesAtMostOnce ==
    /\ agent_turn_entities \in { << >>, ExpectedEntities }
    /\ agent_turn_artifacts \in { << >>, ExpectedArtifacts }

\* a worker was killed after the handler of the entity_extract job had
\* committed; the other worker has claimed the job again and has completed
\* it, and the table holds the entity rows of the turn twice
C37_Witness ==
    /\ \E w \in Procs : pc[w] = "dead"
    /\ \E id \in DOMAIN focus_jobs :
          /\ focus_jobs[id].kind = "entity_extract"
          /\ focus_jobs[id].status = "done"
          /\ focus_jobs[id].attempts = 1
    /\ agent_turn_entities = ExpectedEntities \o ExpectedEntities

====
